---- MODULE Spec2Model ----
(***************************************************************************)
(* Model of Tools/get_ids.py.  get_device_info lists the entities of an    *)
(* ESPHome device, groups them for display, synthesises one REST endpoint  *)
(* descriptor per supported entity, prints the endpoint listing,           *)
(* optionally probes every GET endpoint (test_rest_endpoints) and          *)
(* optionally writes the dashboard files (generate_web_interface); main    *)
(* turns its result into the exit status.  The script inlined in the       *)
(* generated index.html is modelled as the page's event handlers.          *)
(*                                                                         *)
(* A type name is a sequence of words (the capitalised words the code      *)
(* tests for, "Info", and a word that matches nothing), so that Python's   *)
(* substring test `'BinarySensor' in entity_type` is contiguous            *)
(* sub-sequence containment of <<"Binary", "Sensor">>.                     *)
(***************************************************************************)
EXTENDS Integers, Sequences, FiniteSets, TLC

\* get_device_info: its position, arguments, locals and result
VARIABLES pc, timed, web_lang, entities, entity_groups, rest_endpoints,
          skipped_entities, printed, sections, result

\* the rest of the run: arguments, the API client, the exit status of main
VARIABLES host, device_name, test_endpoints, client, exit_status

\* test_rest_endpoints: loop index, counters, requests sent, the response
\* being handled, the printed summary
VARIABLES probe_i, success_count, fail_count, requests, response, summary

\* generate_web_interface: the output directory, and the files each call wrote
VARIABLES disk, bundles

\* the dashboard page: the embedded ENTITIES, the auto-refresh timer, the
\* toolbar button, the requests in flight and the state shown by each card
VARIABLES page, ENTITIES, autoInterval, timers, timer_count, autoBtn,
          in_flight, cards

\* history, kept where two runs are compared (recording): what the device
\* answered to each await of the probe of this run, in order; and what the
\* run before this one was given and did
VARIABLES recording, responses, earlier

\* the controls of the dashboard page: the clicks of its buttons with the
\* POST request each sent and what became of it, and the setTimeout
\* callbacks that wait; history: the GET each callback sent, and for each
\* card the text returned to the request issued last among those answered
VARIABLES post_log, timeouts, fetched_for, latest

info_vars ==
    <<pc, timed, web_lang, entities, entity_groups, rest_endpoints,
      skipped_entities, printed, sections, result>>

run_vars == <<host, device_name, test_endpoints, client, exit_status>>

probe_vars == <<probe_i, success_count, fail_count, requests, response, summary>>

files_vars == <<disk, bundles>>

page_vars ==
    <<page, ENTITIES, autoInterval, timers, timer_count, autoBtn, in_flight, cards>>

history_vars == <<recording, responses, earlier>>

control_vars == <<post_log, timeouts, fetched_for, latest>>

vars ==
    <<info_vars, run_vars, probe_vars, files_vars, page_vars, history_vars,
      control_vars>>

----------------------------------------------------------------------------
(* Bounds of the model *)

MaxWords == 2

MaxEntities == 2

----------------------------------------------------------------------------
(* Generic sequence helpers *)

\* Python `needle in hay` on strings, word by word
Contains(needle, hay) ==
    \E k \in 0..(Len(hay) - Len(needle)) :
        SubSeq(hay, k + 1, k + Len(needle)) = needle

\* str.replace('Info', ''): every occurrence of the word is removed
RemoveInfo(type_name) == SelectSeq(type_name, LAMBDA w : w # "Info")

\* entity_type = type(entity).__name__.replace('Info', '')
EntityType(entity) == RemoveInfo(entity.type_name)

\* Python's str `<` on the strings the model sorts: ascending code point order
CodePointOrder ==
    <<"A", "B", "Binary Sensor", "Button", "Climate", "Cover", "Fan", "Light",
      "Lock", "Number", "Select", "Sensor", "Switch", "Text", "Text Sensor",
      "Time", "a", "b", "c", "d">>

StrRank(s) == CHOOSE k \in 1..Len(CodePointOrder) : CodePointOrder[k] = s

StrLess(a, b) == StrRank(a) < StrRank(b)

\* sorted(s, key=lambda x: x[field]): a stable sort, equal keys keep their
\* input order.  InsertByField puts x behind every element whose key is <= its own.
RECURSIVE InsertByField(_, _, _)
InsertByField(x, s, field) ==
    IF s = <<>> THEN <<x>>
    ELSE IF StrLess(x[field], s[Len(s)][field])
         THEN Append(InsertByField(x, SubSeq(s, 1, Len(s) - 1), field), s[Len(s)])
         ELSE Append(s, x)

RECURSIVE SortedByField(_, _)
SortedByField(s, field) ==
    IF s = <<>> THEN <<>>
    ELSE InsertByField(s[Len(s)], SortedByField(SubSeq(s, 1, Len(s) - 1), field), field)

----------------------------------------------------------------------------
(* The entity listing, get_device_info lines 68-120 *)

\* f"  [{entity.key}] {entity.name} ({entity.object_id})"
EntityInfo(entity) ==
    "  [" \o ToString(entity.key) \o "] " \o entity.name \o " (" \o entity.object_id \o ")"

\* the if/elif chain that picks the display group of an entity
ListingGroup(entity_type) ==
    IF Contains(<<"Binary", "Sensor">>, entity_type) THEN "Binary Sensors"
    ELSE IF /\ Contains(<<"Sensor">>, entity_type)
            /\ ~Contains(<<"Binary">>, entity_type)
            /\ ~Contains(<<"Text">>, entity_type) THEN "Sensors"
    ELSE IF Contains(<<"Switch">>, entity_type) THEN "Switches"
    ELSE IF Contains(<<"Button">>, entity_type) THEN "Buttons"
    ELSE IF Contains(<<"Light">>, entity_type) THEN "Lights"
    ELSE IF Contains(<<"Fan">>, entity_type) THEN "Fans"
    ELSE IF Contains(<<"Cover">>, entity_type) THEN "Covers"
    ELSE IF Contains(<<"Climate">>, entity_type) THEN "Climate"
    ELSE IF Contains(<<"Number">>, entity_type) THEN "Numbers"
    ELSE IF Contains(<<"Select">>, entity_type) THEN "Selects"
    ELSE IF Contains(<<"Text", "Sensor">>, entity_type) THEN "Text Sensors"
    ELSE IF Contains(<<"Lock">>, entity_type) THEN "Locks"
    ELSE IF Contains(<<"MediaPlayer">>, entity_type) THEN "Media Players"
    ELSE IF Contains(<<"Camera">>, entity_type) THEN "Cameras"
    ELSE "Other"

GroupNames ==
    {"Binary Sensors", "Sensors", "Switches", "Buttons", "Lights", "Fans",
     "Covers", "Climate", "Numbers", "Selects", "Text Sensors", "Locks",
     "Media Players", "Cameras", "Other"}

EmptyGroups == [g \in GroupNames |-> <<>>]

\* the loop `for entity in entities` over the chain: every entity's info line
\* is appended to the list of its group
RECURSIVE GroupEntities(_)
GroupEntities(es) ==
    IF es = <<>> THEN EmptyGroups
    ELSE LET groups == GroupEntities(SubSeq(es, 1, Len(es) - 1))
             entity == es[Len(es)]
             g      == ListingGroup(EntityType(entity))
         IN  [groups EXCEPT ![g] = Append(@, EntityInfo(entity))]

----------------------------------------------------------------------------
(* REST endpoint synthesis, get_device_info lines 161-316 *)

\* the path built from the display name instead of the object id
EndpointPathOfName(slug, entity) == "/" \o slug \o "/" \o entity.name

\* f"/{slug}/{entity_id}"
EndpointPath(slug, entity) == "/" \o slug \o "/" \o entity.object_id

\* the on/off actions without the toggle
OnOffActionsNoToggle == <<"turn_on", "turn_off">>

\* the actions of the entities that are switched on and off
OnOffActions == <<"turn_on", "turn_off", "toggle">>

\* The branches of the if/elif chain, one per rule: the words the rule looks
\* for in entity_type and the constants of the dict it appends.  A GET-only
\* branch has no 'actions' key.
RuleBinarySensor ==
    [words |-> <<"Binary", "Sensor">>, type |-> "Binary Sensor",
     slug |-> "binary_sensor", methods |-> <<"GET">>]

RuleTextSensor ==
    [words |-> <<"Text", "Sensor">>, type |-> "Text Sensor",
     slug |-> "text_sensor", methods |-> <<"GET">>]

RuleSensor ==
    [words |-> <<"Sensor">>, type |-> "Sensor", slug |-> "sensor", methods |-> <<"GET">>]

RuleSwitch ==
    [words |-> <<"Switch">>, type |-> "Switch", slug |-> "switch",
     methods |-> <<"GET", "POST">>, actions |-> OnOffActions]

RuleLight ==
    [words |-> <<"Light">>, type |-> "Light", slug |-> "light",
     methods |-> <<"GET", "POST">>, actions |-> OnOffActions]

\* a button that cannot be read
RuleButtonPostOnly ==
    [words |-> <<"Button">>, type |-> "Button", slug |-> "button",
     methods |-> <<"POST">>, actions |-> <<"press">>]

RuleButton ==
    [words |-> <<"Button">>, type |-> "Button", slug |-> "button",
     methods |-> <<"GET", "POST">>, actions |-> <<"press">>]

RuleFan ==
    [words |-> <<"Fan">>, type |-> "Fan", slug |-> "fan",
     methods |-> <<"GET", "POST">>, actions |-> OnOffActions]

RuleCover ==
    [words |-> <<"Cover">>, type |-> "Cover", slug |-> "cover",
     methods |-> <<"GET", "POST">>, actions |-> <<"open", "close", "stop">>]

RuleClimate ==
    [words |-> <<"Climate">>, type |-> "Climate", slug |-> "climate",
     methods |-> <<"GET", "POST">>, actions |-> <<"set mode, temperature">>]

RuleNumber ==
    [words |-> <<"Number">>, type |-> "Number", slug |-> "number",
     methods |-> <<"GET", "POST">>, actions |-> <<"set value">>]

RuleSelect ==
    [words |-> <<"Select">>, type |-> "Select", slug |-> "select",
     methods |-> <<"GET", "POST">>, actions |-> <<"set option">>]

RuleLock ==
    [words |-> <<"Lock">>, type |-> "Lock", slug |-> "lock",
     methods |-> <<"GET", "POST">>, actions |-> <<"lock", "unlock">>]

RuleTime ==
    [words |-> <<"Time">>, type |-> "Time", slug |-> "time",
     methods |-> <<"GET", "POST">>, actions |-> <<"set time">>]

RuleText ==
    [words |-> <<"Text">>, type |-> "Text", slug |-> "text",
     methods |-> <<"GET", "POST">>, actions |-> <<"set text">>]

\* the chain with the plain sensor branch tested first
RestRulesSensorFirst ==
    <<RuleSensor, RuleBinarySensor, RuleTextSensor, RuleSwitch, RuleLight,
      RuleButton, RuleFan, RuleCover, RuleClimate, RuleNumber, RuleSelect,
      RuleLock, RuleTime, RuleText>>

\* the chain with the text sensor branch behind the plain sensor branch
RestRulesTextSensorLate ==
    <<RuleBinarySensor, RuleSensor, RuleTextSensor, RuleSwitch, RuleLight,
      RuleButton, RuleFan, RuleCover, RuleClimate, RuleNumber, RuleSelect,
      RuleLock, RuleTime, RuleText>>

\* the order the chain tests its branches in
RestRules ==
    <<RuleBinarySensor, RuleTextSensor, RuleSensor, RuleSwitch, RuleLight,
      RuleButton, RuleFan, RuleCover, RuleClimate, RuleNumber, RuleSelect,
      RuleLock, RuleTime, RuleText>>

\* the options of the entity are dropped
SelectOptionsNone(entity) == <<>>

\* list(entity.options) if hasattr(entity, 'options') else []
SelectOptions(entity) ==
    IF "options" \in DOMAIN entity THEN entity.options ELSE <<>>

\* the dict a branch appends to rest_endpoints
RestEndpoint(rule, entity) ==
    LET base == [type      |-> rule.type,
                 entity    |-> entity.name,
                 object_id |-> entity.object_id,
                 methods   |-> rule.methods,
                 endpoint  |-> EndpointPath(rule.slug, entity)]
    IN  IF "actions" \notin DOMAIN rule THEN base
        ELSE IF rule.type = "Select"
             THEN base @@ [actions |-> rule.actions, options |-> SelectOptions(entity)]
             ELSE base @@ [actions |-> rule.actions]

\* the dict the else branch appends to skipped_entities
SkippedEntity(entity) ==
    [entity    |-> entity.name,
     object_id |-> entity.object_id,
     type      |-> EntityType(entity)]

\* the loop body without its else branch: an entity no branch takes is lost
SynthesizeEntityNoElse(out, entity) ==
    LET entity_type == EntityType(entity)
        Matches(k)  == Contains(RestRules[k].words, entity_type)
    IN  IF \E k \in 1..Len(RestRules) : Matches(k)
        THEN LET first == CHOOSE k \in 1..Len(RestRules) :
                              Matches(k) /\ \A j \in 1..(k - 1) : ~Matches(j)
             IN  [out EXCEPT !.rest_endpoints =
                                 Append(@, RestEndpoint(RestRules[first], entity))]
        ELSE out

\* One pass of the loop body: the first branch whose words are in entity_type
\* appends its descriptor to rest_endpoints; when there is none, the else
\* branch appends to skipped_entities.
SynthesizeEntity(out, entity) ==
    LET entity_type == EntityType(entity)
        Matches(k)  == Contains(RestRules[k].words, entity_type)
    IN  IF \E k \in 1..Len(RestRules) : Matches(k)
        THEN LET first == CHOOSE k \in 1..Len(RestRules) :
                              Matches(k) /\ \A j \in 1..(k - 1) : ~Matches(j)
             IN  [out EXCEPT !.rest_endpoints =
                                 Append(@, RestEndpoint(RestRules[first], entity))]
        ELSE [out EXCEPT !.skipped_entities = Append(@, SkippedEntity(entity))]

\* the loop `for entity in entities`, from two empty lists
RECURSIVE Synthesize(_)
Synthesize(es) ==
    IF es = <<>> THEN [rest_endpoints |-> <<>>, skipped_entities |-> <<>>]
    ELSE SynthesizeEntity(Synthesize(SubSeq(es, 1, Len(es) - 1)), es[Len(es)])

----------------------------------------------------------------------------
(* The printed REST endpoint listing, get_device_info lines 328-346 *)

\* endpoint_groups: a dict in insertion order, here the sequence of its items
RECURSIVE GroupByType(_)
GroupByType(eps) ==
    IF eps = <<>> THEN <<>>
    ELSE LET groups == GroupByType(SubSeq(eps, 1, Len(eps) - 1))
             ep     == eps[Len(eps)]
         IN  IF \E k \in 1..Len(groups) : groups[k].ep_type = ep.type
             THEN [k \in 1..Len(groups) |->
                      IF groups[k].ep_type = ep.type
                      THEN [groups[k] EXCEPT !.endpoints = Append(@, ep)]
                      ELSE groups[k]]
             ELSE Append(groups, [ep_type |-> ep.type, endpoints |-> <<ep>>])

\* the listing with every group sorted by display name
PrintedEndpointsByName(eps) ==
    LET items == SortedByField(GroupByType(eps), "ep_type")
    IN  [k \in 1..Len(items) |->
            [ep_type   |-> items[k].ep_type,
             endpoints |-> SortedByField(items[k].endpoints, "entity")]]

\* for ep_type, endpoints in sorted(endpoint_groups.items()):
\*     for ep in sorted(endpoints, key=lambda x: x['object_id']): print ...
PrintedEndpoints(eps) ==
    LET items == SortedByField(GroupByType(eps), "ep_type")
    IN  [k \in 1..Len(items) |->
            [ep_type   |-> items[k].ep_type,
             endpoints |-> SortedByField(items[k].endpoints, "object_id")]]

----------------------------------------------------------------------------
(* The dashboard HTML, _generate_html lines 545-570 and _entity_card_html *)

type_order ==
    <<"Binary Sensor", "Sensor", "Text Sensor", "Switch", "Button", "Light",
      "Fan", "Cover", "Climate", "Number", "Select", "Lock", "Time", "Text">>

\* ep.get('actions', []) and ep.get('options', [])
GetOr(ep, field, default) == IF field \in DOMAIN ep THEN ep[field] ELSE default

\* a button whose click posts its label
ActionButtonOfLabel(endpoint, action, oid, label) ==
    [tag |-> "button", onclick |-> <<"doAction", endpoint, label, oid>>, label |-> label]

ActionButton(endpoint, action, oid, label) ==
    [tag |-> "button", onclick |-> <<"doAction", endpoint, action, oid>>, label |-> label]

SetButton(handler, endpoint, oid) ==
    [tag |-> "button", onclick |-> <<handler, endpoint, oid>>, label |-> "Set"]

InputField(input_type, oid) ==
    [tag |-> "input", type |-> input_type, id |-> "input-" \o oid]

CardControls(ep, entity_type) ==
    LET oid      == ep.object_id
        endpoint == ep.endpoint
    IN  IF entity_type \in {"Switch", "Light", "Fan"}
            THEN <<ActionButton(endpoint, "turn_on", oid, "ON"),
                   ActionButton(endpoint, "turn_off", oid, "OFF"),
                   ActionButton(endpoint, "toggle", oid, "Toggle")>>
        ELSE IF entity_type = "Button"
            THEN <<ActionButton(endpoint, "press", oid, "Press")>>
        ELSE IF entity_type = "Cover"
            THEN <<ActionButton(endpoint, "open", oid, "Open"),
                   ActionButton(endpoint, "close", oid, "Close"),
                   ActionButton(endpoint, "stop", oid, "Stop")>>
        ELSE IF entity_type = "Lock"
            THEN <<ActionButton(endpoint, "lock", oid, "Lock"),
                   ActionButton(endpoint, "unlock", oid, "Unlock")>>
        ELSE IF entity_type = "Number"
            THEN <<InputField("number", oid), SetButton("doSetValue", endpoint, oid)>>
        ELSE IF entity_type = "Select"
            THEN <<[tag |-> "select", id |-> "input-" \o oid,
                    options |-> GetOr(ep, "options", <<>>)],
                   SetButton("doSetOption", endpoint, oid)>>
        ELSE IF entity_type = "Time"
            THEN <<InputField("time", oid), SetButton("doSetTime", endpoint, oid)>>
        ELSE IF entity_type = "Text"
            THEN <<InputField("text", oid), SetButton("doSetValue", endpoint, oid)>>
        ELSE IF entity_type = "Climate"
            THEN <<InputField("number", oid), SetButton("doSetValue", endpoint, oid)>>
        ELSE <<>>

\* _entity_card_html(ep, entity_type)
EntityCardHtml(ep, entity_type) ==
    [id       |-> "card-" \o ep.object_id,
     name     |-> ep.entity,
     endpoint |-> ep.endpoint,
     controls |-> CardControls(ep, entity_type)]

\* eps = sorted(groups[t], key=lambda e: e['entity'])
SectionEndpoints(eps) == SortedByField(eps, "entity")

\* sections_html: for t in type_order, one section per type that has endpoints
SectionsHtml(eps) ==
    LET groups   == GroupByType(eps)
        InGroups(t) == \E k \in 1..Len(groups) : groups[k].ep_type = t
        Group(t) == (CHOOSE k \in 1..Len(groups) : groups[k].ep_type = t)
        present  == SelectSeq(type_order, InGroups)
    IN  [n \in 1..Len(present) |->
            LET t     == present[n]
                sorted == SectionEndpoints(groups[Group(t)].endpoints)
            IN  [type  |-> t,
                 cards |-> [c \in 1..Len(sorted) |-> EntityCardHtml(sorted[c], t)]]]

----------------------------------------------------------------------------
(* generate_web_interface and the files it writes.  A file's text is kept  *)
(* as the record of what the template is filled with; the content of a     *)
(* file on disk is the sequence of the texts written since it was opened.  *)

\* _generate_api_code(host, lang): the four request functions, typed for ts
GenerateApiCode(h, lang) ==
    [language   |-> IF lang = "ts" THEN "TypeScript" ELSE "JavaScript",
     BASE_URL   |-> "http://" \o h,
     getEntity  |-> [method |-> "GET", url |-> <<"endpoint">>],
     postAction |-> [method |-> "POST", url |-> <<"endpoint", "/", "action">>],
     postValue  |-> [method |-> "POST", url |-> <<"endpoint", "/set?value=", "value">>],
     postTime   |-> [method |-> "POST",
                     url |-> <<"endpoint", "/set?hour=", "hour", "&minute=", "minute",
                               "&second=", "second">>]]

\* _generate_html(host, device_name, rest_endpoints, ext): ext is not used
GenerateHtml(h, name, eps, ext) ==
    [title      |-> name \o " - ESPHome Dashboard",
     h1         |-> name,
     subtitle   |-> h,
     autoBtn    |-> "Auto: OFF",
     sections   |-> SectionsHtml(eps),
     script_src |-> "api.js",
     ENTITIES   |-> eps]

TsConfig ==
    [outDir |-> "./dist", rootDir |-> ".", include |-> <<"*.ts">>,
     exclude |-> <<"node_modules">>]

PackageJson(name, lang) ==
    [name            |-> "esphome-dashboard",
     description     |-> "ESPHome REST Dashboard for " \o name,
     build           |-> IF lang = "ts" THEN "tsc && cp index.html dist"
                                        ELSE "echo No build needed",
     serve           |-> IF lang = "js" THEN "python -m http.server 8080"
                                        ELSE "npm run build && python -m http.server 8080 --directory dist",
     devDependencies |-> IF lang = "ts" THEN {"typescript"} ELSE {}]

\* with open(path, 'a') as f: f.write(text)
AppendFile(dir, path, text) ==
    [f \in DOMAIN dir \cup {path} |->
        IF f = path THEN (IF path \in DOMAIN dir THEN dir[path] ELSE <<>>) \o <<text>>
        ELSE dir[f]]

\* with open(path, 'w') as f: f.write(text)
WriteFile(dir, path, text) ==
    [f \in DOMAIN dir \cup {path} |-> IF f = path THEN <<text>> ELSE dir[f]]

\* the files a call writes, in the order it writes them, tsconfig.json or not
WritesOfAnyLang(h, name, eps, lang) ==
    <<[path |-> "api." \o lang, text |-> GenerateApiCode(h, lang)],
      [path |-> "index.html", text |-> GenerateHtml(h, name, eps, lang)],
      [path |-> "tsconfig.json", text |-> TsConfig],
      [path |-> "package.json", text |-> PackageJson(name, lang)]>>

\* the files a call writes, in the order it writes them
Writes(h, name, eps, lang) ==
    <<[path |-> "api." \o lang, text |-> GenerateApiCode(h, lang)],
      [path |-> "index.html", text |-> GenerateHtml(h, name, eps, lang)]>>
    \o (IF lang = "ts" THEN <<[path |-> "tsconfig.json", text |-> TsConfig]>> ELSE <<>>)
    \o <<[path |-> "package.json", text |-> PackageJson(name, lang)]>>

RECURSIVE WriteAll(_, _)
WriteAll(dir, writes) ==
    IF writes = <<>> THEN dir
    ELSE WriteAll(WriteFile(dir, Head(writes).path, Head(writes).text), Tail(writes))

\* generate_web_interface(host, device_name, rest_endpoints, out_dir, lang):
\* the directory afterwards
GenerateWebInterfaceDir(dir, h, name, eps, lang) == WriteAll(dir, Writes(h, name, eps, lang))

\* what the call was given, and the names and contents of the files it wrote
Bundle(dir, h, name, eps, lang) ==
    LET w     == Writes(h, name, eps, lang)
        after == GenerateWebInterfaceDir(dir, h, name, eps, lang)
    IN  [args  |-> [host |-> h, device_name |-> name, rest_endpoints |-> eps, lang |-> lang],
         names |-> [k \in 1..Len(w) |-> w[k].path],
         files |-> [f \in {w[k].path : k \in 1..Len(w)} |-> after[f]]]

----------------------------------------------------------------------------
(* The devices the program is run against *)

RuleWords ==
    {"Binary", "Text", "Sensor", "Switch", "Button", "Light", "Fan", "Cover",
     "Climate", "Number", "Select", "Lock", "Time", "MediaPlayer", "Camera"}

\* the pieces type names are built from: every word a rule tests for, the two
\* compound words, and a word no rule knows
NameParts ==
    {<<w>> : w \in RuleWords \cup {"WeirdThing"}}
        \cup {<<"Binary", "Sensor">>, <<"Text", "Sensor">>}

RECURSIVE PartSeqs(_)
PartSeqs(n) ==
    IF n = 0 THEN {<<>>}
    ELSE {a \o b : a \in PartSeqs(n - 1), b \in NameParts}

\* a name with "Info" nowhere, or once at any place
WithInfo(t) ==
    {t} \cup {SubSeq(t, 1, k) \o <<"Info">> \o SubSeq(t, k + 1, Len(t)) : k \in 0..Len(t)}

TypeNames == UNION {WithInfo(t) : t \in UNION {PartSeqs(n) : n \in 1..MaxWords}}

EntityNames == {"A", "B"}

ObjectIds == {"a", "b", "c"}

OptionLists == {<<>>, <<"a", "b">>}

\* a device with one entity of any type name, alone or followed by a sensor
\* of another id or by an entity of no known type under the same name and id
Companions ==
    {<<>>,
     <<[key |-> 2, type_name |-> <<"Sensor", "Info">>, name |-> "B", object_id |-> "b"]>>,
     <<[key |-> 2, type_name |-> <<"WeirdThing", "Info">>, name |-> "A", object_id |-> "a"]>>}

\* the type names of selects
SelectTypeNames == {t \in TypeNames : \E k \in 1..Len(t) : t[k] = "Select"}

\* one entity of any type name; an entity of a select type has options or
\* lacks the attribute
SingleEntities ==
    {[key |-> 1, type_name |-> t, name |-> "A", object_id |-> "a"] : t \in TypeNames}
        \cup {[key |-> 1, type_name |-> t, name |-> "A", object_id |-> "a",
                options |-> <<"a", "b">>] : t \in SelectTypeNames}

SingleEntityLists == {<<e>> \o c : e \in SingleEntities, c \in Companions}

ListTypeNames == {<<"Sensor", "Info">>, <<"Button", "Info">>}

\* the entities of a device with several entities: sensors and buttons under
\* every name and id, an entity of no known type, and a select with options
ListEntityChoices ==
    [type_name : ListTypeNames, name : EntityNames, object_id : ObjectIds]
        \cup [type_name : {<<"WeirdThing", "Info">>}, name : {"A"}, object_id : ObjectIds]
        \cup [type_name : {<<"Select", "Info">>}, name : {"A"},
              object_id : ObjectIds, options : OptionLists]

WithKey(e, key) == [f \in DOMAIN e \cup {"key"} |-> IF f = "key" THEN key ELSE e[f]]

SeveralEntityLists ==
    UNION {{[k \in 1..n |-> WithKey(f[k], k)] : f \in [1..n -> ListEntityChoices]}
              : n \in 0..MaxEntities}

WebLangs == {"", "js", "ts"}

----------------------------------------------------------------------------
(* get_device_info *)

\* what get_device_info has returned: nothing yet, False, or the list
NotReturned == [returned |-> "nothing"]

ReturnedFalse == [returned |-> "False"]

ReturnedList(eps) == [returned |-> "list", list |-> eps]

\* the output directory before the run: empty, or holding an older dashboard
EmptyDir == <<>>

InitialDirs ==
    {EmptyDir, [f \in {"index.html", "tsconfig.json"} |-> <<[stale |-> TRUE]>>]}

\* the page of the dashboard is not open
PageClosed ==
    /\ page = "closed"
    /\ ENTITIES = <<>>
    /\ autoInterval = 0
    /\ timers = {}
    /\ timer_count = 0
    /\ autoBtn = [textContent |-> "", active |-> FALSE]
    /\ in_flight = <<>>
    /\ cards = <<>>
    /\ post_log = <<>>
    /\ timeouts = {}
    /\ fetched_for = <<>>
    /\ latest = <<>>

\* the program's state when main calls get_device_info, but for the arguments
BeforeRun ==
    /\ pc = "connect"
    /\ entities = <<>>
    /\ entity_groups = EmptyGroups
    /\ rest_endpoints = <<>>
    /\ skipped_entities = <<>>
    /\ printed = <<>>
    /\ sections = <<>>
    /\ result = NotReturned
    /\ client = "created"
    /\ exit_status = <<>>
    /\ probe_i = 0
    /\ success_count = 0
    /\ fail_count = 0
    /\ requests = <<>>
    /\ response = 0
    /\ summary = <<>>
    /\ bundles = <<>>
    /\ responses = <<>>
    /\ earlier = <<>>

Init ==
    /\ BeforeRun
    /\ recording = FALSE
    /\ PageClosed
    /\ timed \in BOOLEAN
    /\ web_lang \in WebLangs
    /\ test_endpoints = FALSE
    /\ host = "pool.local"
    /\ device_name = "Pool"
    /\ disk = EmptyDir

\* await client.connect(login=True)
Connect ==
    /\ pc = "connect"
    /\ pc' = "device_info"
    /\ client' = "connected"
    /\ UNCHANGED <<timed, web_lang, entities, entity_groups, rest_endpoints,
                   skipped_entities, printed, sections, result>>
    /\ UNCHANGED <<host, device_name, test_endpoints, exit_status>>
    /\ UNCHANGED <<probe_vars, files_vars, page_vars, history_vars, control_vars>>

\* device_info = await client.device_info()
DeviceInfo ==
    /\ pc = "device_info"
    /\ pc' = "list_entities"
    /\ UNCHANGED <<timed, web_lang, entities, entity_groups, rest_endpoints,
                   skipped_entities, printed, sections, result>>
    /\ UNCHANGED <<run_vars, probe_vars, files_vars, page_vars, history_vars, control_vars>>

\* one of the three awaits raises: the except clauses return False, and the
\* pc moves to the finally clause; this one returns without it
ConnectionFailsNoFinally ==
    /\ pc \in {"connect", "device_info", "list_entities"}
    /\ result' = ReturnedFalse
    /\ pc' = "done"
    /\ UNCHANGED <<timed, web_lang, entities, entity_groups, rest_endpoints,
                   skipped_entities, printed, sections>>
    /\ UNCHANGED <<run_vars, probe_vars, files_vars, page_vars, history_vars, control_vars>>

\* one of the three awaits raises: the except clauses return False
ConnectionFails ==
    /\ pc \in {"connect", "device_info", "list_entities"}
    /\ result' = ReturnedFalse
    /\ pc' = "disconnect"
    /\ UNCHANGED <<timed, web_lang, entities, entity_groups, rest_endpoints,
                   skipped_entities, printed, sections>>
    /\ UNCHANGED <<run_vars, probe_vars, files_vars, page_vars, history_vars, control_vars>>

\* entities, services = await client.list_entities_services(), and the
\* synchronous code behind it up to the endpoint test: the entity listing,
\* the synthesis of rest_endpoints and the printed endpoint listing
ListEntitiesFrom(lists) ==
    /\ pc = "list_entities"
    /\ \E es \in lists :
          LET out == Synthesize(es)
          IN  /\ entities' = es
              /\ entity_groups' = GroupEntities(es)
              /\ rest_endpoints' = out.rest_endpoints
              /\ skipped_entities' = out.skipped_entities
              /\ printed' = IF timed THEN <<>> ELSE PrintedEndpoints(out.rest_endpoints)
    /\ pc' = IF test_endpoints THEN "test" ELSE "web"
    /\ UNCHANGED <<timed, web_lang, sections, result>>
    /\ UNCHANGED <<run_vars, probe_vars, files_vars, page_vars, history_vars, control_vars>>

\* the device has several entities of a few types
ListEntities == ListEntitiesFrom(SeveralEntityLists)

\* the device has one entity, of any type name
ListSingleEntity == ListEntitiesFrom(SingleEntityLists)

\* a generator that sorts the list it was given in place, rest_endpoints.sort(...)
CallGenerateWebInterfaceSortsInPlace ==
    /\ disk' = GenerateWebInterfaceDir(disk, host, device_name, rest_endpoints, web_lang)
    /\ bundles' = Append(bundles, Bundle(disk, host, device_name, rest_endpoints, web_lang))
    /\ sections' = GenerateHtml(host, device_name, rest_endpoints, web_lang).sections
    /\ rest_endpoints' = SortedByField(rest_endpoints, "entity")

\* generate_web_interface(host, device_name, rest_endpoints, web_out, web_lang):
\* the list is the caller's list object, and the call only reads it
CallGenerateWebInterface ==
    /\ disk' = GenerateWebInterfaceDir(disk, host, device_name, rest_endpoints, web_lang)
    /\ bundles' = Append(bundles, Bundle(disk, host, device_name, rest_endpoints, web_lang))
    /\ sections' = GenerateHtml(host, device_name, rest_endpoints, web_lang).sections
    /\ rest_endpoints' = rest_endpoints

\* if web_out and web_lang: generate_web_interface(...)
GenerateWebInterface ==
    /\ pc = "web"
    /\ IF web_lang # "" THEN CallGenerateWebInterface
                        ELSE UNCHANGED <<disk, bundles, sections, rest_endpoints>>
    /\ pc' = "return"
    /\ UNCHANGED <<timed, web_lang, entities, entity_groups,
                   skipped_entities, printed, result>>
    /\ UNCHANGED <<run_vars, probe_vars, page_vars, history_vars, control_vars>>

\* return rest_endpoints
Return ==
    /\ pc = "return"
    /\ result' = ReturnedList(rest_endpoints)
    /\ pc' = "disconnect"
    /\ UNCHANGED <<timed, web_lang, entities, entity_groups, rest_endpoints,
                   skipped_entities, printed, sections>>
    /\ UNCHANGED <<run_vars, probe_vars, files_vars, page_vars, history_vars, control_vars>>

\* finally: await client.disconnect()
Disconnect ==
    /\ pc = "disconnect"
    /\ pc' = "done"
    /\ client' = "disconnected"
    /\ UNCHANGED <<timed, web_lang, entities, entity_groups, rest_endpoints,
                   skipped_entities, printed, sections, result>>
    /\ UNCHANGED <<host, device_name, test_endpoints, exit_status>>
    /\ UNCHANGED <<probe_vars, files_vars, page_vars, history_vars, control_vars>>

Next ==
    \/ Connect
    \/ DeviceInfo
    \/ ConnectionFails
    \/ ListEntities
    \/ GenerateWebInterface
    \/ Return
    \/ Disconnect

Spec == Init /\ [][Next]_vars

\* the runs against a device with one entity, the dashboard requested
InitTypeNames == Init /\ ~timed /\ web_lang = "js"

NextTypeNames ==
    \/ Connect
    \/ DeviceInfo
    \/ ConnectionFails
    \/ ListSingleEntity
    \/ GenerateWebInterface
    \/ Return
    \/ Disconnect

SpecTypeNames == InitTypeNames /\ [][NextTypeNames]_vars

----------------------------------------------------------------------------
(* test_rest_endpoints: one GET request per GET endpoint, one after the    *)
(* other.  Each await is a step of its own: session.get, response.json(),  *)
(* response.text() each return or raise.                                   *)

\* 'GET' in ep['methods']
HasGet(ep) == \E k \in 1..Len(ep.methods) : ep.methods[k] = "GET"

\* get_endpoints = [ep for ep in rest_endpoints if 'GET' in ep['methods']]
GetEndpoints(eps) == SelectSeq(eps, HasGet)

\* get_count = len([ep for ep in rest_endpoints if 'GET' in ep['methods']])
GetCount(eps) == Len(GetEndpoints(eps))

\* post_only_count = len([ep for ep in rest_endpoints if 'GET' not in ep['methods']])
PostOnlyCount(eps) == Len(SelectSeq(eps, LAMBDA ep : ~HasGet(ep)))

\* url = f"http://{host}{ep['endpoint']}"
Url(h, ep) == "http://" \o h \o ep.endpoint

\* the status a response carries; response = 0 while there is none
Statuses == {200, 404, 500}

\* what an await raises: asyncio.TimeoutError, an aiohttp.ClientError, or
\* an Exception of another class
ExceptionClasses == {"TimeoutError", "ClientError", "Exception"}

\* the except clauses of the loop body without the last
ExceptClausesNoCatchAll == <<"TimeoutError", "ClientError">>

\* the except clauses of the loop body, lines 885, 892 and 899
ExceptClauses == <<"TimeoutError", "ClientError", "Exception">>

\* some clause names the class of the exception or a base class of it
Caught(exc) ==
    \E k \in 1..Len(ExceptClauses) : ExceptClauses[k] \in {exc, "Exception"}

\* one answer of the device: which await it ended, the status of the
\* response (0 when there is none yet), the exception raised ("" when none)
Answer(await, status, raises) ==
    [await |-> await, status |-> status, raises |-> raises]

\* the answer joins the history of the run
Record(answer) ==
    responses' = IF recording THEN Append(responses, answer) ELSE responses

\* the iteration is over with the counters at s and f: the next endpoint,
\* or the summary printed at the end of the function
EndOfIteration(s, f) ==
    /\ success_count' = s
    /\ fail_count' = f
    /\ response' = 0
    /\ IF probe_i < Len(GetEndpoints(rest_endpoints))
          THEN /\ probe_i' = probe_i + 1
               /\ pc' = "get"
               /\ summary' = summary
          ELSE /\ probe_i' = probe_i
               /\ pc' = "web"
               /\ summary' = <<[total      |-> Len(GetEndpoints(rest_endpoints)),
                                successful |-> s,
                                failed     |-> f]>>
    /\ UNCHANGED <<requests, result>>

\* an await of the loop body raises exc: the matching except clause counts a
\* failure; an exception no clause catches leaves test_rest_endpoints and
\* reaches the except clause of get_device_info
Raise(exc) ==
    IF Caught(exc)
        THEN EndOfIteration(success_count, fail_count + 1)
        ELSE /\ result' = ReturnedFalse
             /\ pc' = "disconnect"
             /\ response' = 0
             /\ UNCHANGED <<probe_i, success_count, fail_count, requests, summary>>

\* await test_rest_endpoints(host, rest_endpoints, timed), up to the loop
TestRestEndpoints ==
    /\ pc = "test"
    /\ IF GetEndpoints(rest_endpoints) = <<>>
          THEN /\ pc' = "web"
               /\ UNCHANGED <<probe_i, success_count, fail_count>>
          ELSE /\ pc' = "get"
               /\ probe_i' = 1
               /\ success_count' = 0
               /\ fail_count' = 0
    /\ UNCHANGED <<timed, web_lang, entities, entity_groups, rest_endpoints,
                   skipped_entities, printed, sections, result>>
    /\ UNCHANGED <<requests, response, summary>>
    /\ UNCHANGED <<run_vars, files_vars, page_vars, history_vars, control_vars>>

\* the requests for this endpoint and all behind it go out at once
SessionGetAhead ==
    /\ pc = "get"
    /\ requests' = requests \o
          [k \in 1..(Len(GetEndpoints(rest_endpoints)) - probe_i + 1) |->
              Url(host, GetEndpoints(rest_endpoints)[probe_i + k - 1])]
    /\ pc' = "await_get"
    /\ UNCHANGED <<timed, web_lang, entities, entity_groups, rest_endpoints,
                   skipped_entities, printed, sections, result>>
    /\ UNCHANGED <<probe_i, success_count, fail_count, response, summary>>
    /\ UNCHANGED <<run_vars, files_vars, page_vars, history_vars, control_vars>>

\* session.get(url, timeout=aiohttp.ClientTimeout(total=5)): the request goes out
SessionGet ==
    /\ pc = "get"
    /\ requests' = Append(requests, Url(host, GetEndpoints(rest_endpoints)[probe_i]))
    /\ pc' = "await_get"
    /\ UNCHANGED <<timed, web_lang, entities, entity_groups, rest_endpoints,
                   skipped_entities, printed, sections, result>>
    /\ UNCHANGED <<probe_i, success_count, fail_count, response, summary>>
    /\ UNCHANGED <<run_vars, files_vars, page_vars, history_vars, control_vars>>

\* the response arrives; a status other than 200 is counted at once, and its
\* body is read only when not timed
GetResponds ==
    /\ pc = "await_get"
    /\ \E status \in Statuses :
          /\ Record(Answer("get", status, ""))
          /\ IF status = 200
                THEN /\ response' = status
                     /\ pc' = "await_json"
                     /\ UNCHANGED <<probe_i, success_count, fail_count, requests,
                                    summary, result>>
             ELSE IF timed
                THEN EndOfIteration(success_count, fail_count + 1)
             ELSE /\ response' = status
                  /\ fail_count' = fail_count + 1
                  /\ pc' = "await_text"
                  /\ UNCHANGED <<probe_i, success_count, requests, summary, result>>
    /\ UNCHANGED <<timed, web_lang, entities, entity_groups, rest_endpoints,
                   skipped_entities, printed, sections>>
    /\ UNCHANGED <<run_vars, files_vars, page_vars, recording, earlier, control_vars>>

\* session.get raises: no response within 5 seconds, no connection, or else
GetRaises ==
    /\ pc = "await_get"
    /\ \E exc \in ExceptionClasses :
          /\ Raise(exc)
          /\ Record(Answer("get", 0, exc))
    /\ UNCHANGED <<timed, web_lang, entities, entity_groups, rest_endpoints,
                   skipped_entities, printed, sections>>
    /\ UNCHANGED <<run_vars, files_vars, page_vars, recording, earlier, control_vars>>

\* data = await response.json() returns
JsonParsed ==
    /\ pc = "await_json"
    /\ EndOfIteration(success_count + 1, fail_count)
    /\ UNCHANGED <<timed, web_lang, entities, entity_groups, rest_endpoints,
                   skipped_entities, printed, sections>>
    /\ UNCHANGED <<run_vars, files_vars, page_vars, recording, earlier, control_vars>>
    /\ Record(Answer("json", response, ""))

\* response.json() raises; except Exception: text = await response.text()
JsonRaises ==
    /\ pc = "await_json"
    /\ pc' = "await_text"
    /\ UNCHANGED <<timed, web_lang, entities, entity_groups, rest_endpoints,
                   skipped_entities, printed, sections, result>>
    /\ UNCHANGED <<probe_vars, run_vars, files_vars, page_vars, recording, earlier, control_vars>>
    /\ Record(Answer("json", response, "Exception"))

\* text = await response.text() returns: a success for status 200, line 870;
\* nothing more to count for another status, line 878
TextRead ==
    /\ pc = "await_text"
    /\ IF response = 200
          THEN EndOfIteration(success_count + 1, fail_count)
          ELSE EndOfIteration(success_count, fail_count)
    /\ UNCHANGED <<timed, web_lang, entities, entity_groups, rest_endpoints,
                   skipped_entities, printed, sections>>
    /\ UNCHANGED <<run_vars, files_vars, page_vars, recording, earlier, control_vars>>
    /\ Record(Answer("text", response, ""))

\* response.text() raises: the connection broke or the 5 seconds ran out
\* while the body was read
TextRaises ==
    /\ pc = "await_text"
    /\ \E exc \in ExceptionClasses :
          /\ Raise(exc)
          /\ Record(Answer("text", response, exc))
    /\ UNCHANGED <<timed, web_lang, entities, entity_groups, rest_endpoints,
                   skipped_entities, printed, sections>>
    /\ UNCHANGED <<run_vars, files_vars, page_vars, recording, earlier, control_vars>>

----------------------------------------------------------------------------
(* main: the exit status, and the whole run with the probe *)

\* the truth value of what get_device_info returned
Truthy(r) == r.returned = "list" /\ r.list # <<>>

\* sys.exit(0 if success else 1)
Exit ==
    /\ pc = "done"
    /\ exit_status' = <<IF Truthy(result) THEN 0 ELSE 1>>
    /\ pc' = "exited"
    /\ UNCHANGED <<timed, web_lang, entities, entity_groups, rest_endpoints,
                   skipped_entities, printed, sections, result>>
    /\ UNCHANGED <<host, device_name, test_endpoints, client>>
    /\ UNCHANGED <<probe_vars, files_vars, page_vars, history_vars, control_vars>>

WeirdThingC == [type_name |-> <<"WeirdThing", "Info">>, name |-> "A", object_id |-> "c"]

ProbedEntityChoices ==
    {[type_name |-> <<"Sensor", "Info">>, name |-> "A", object_id |-> "a"],
     [type_name |-> <<"Button", "Info">>, name |-> "B", object_id |-> "b"],
     WeirdThingC}

\* the devices the probe is run against: no entity, entities without an
\* endpoint, and up to MaxEntities endpoints to probe
ProbedEntityLists ==
    UNION {{[k \in 1..n |-> WithKey(f[k], k)] : f \in [1..n -> ProbedEntityChoices]}
              : n \in 0..MaxEntities}

ListProbedEntities == ListEntitiesFrom(ProbedEntityLists)

InitRun ==
    /\ BeforeRun
    /\ recording = FALSE
    /\ PageClosed
    /\ timed \in BOOLEAN
    /\ web_lang \in WebLangs
    /\ test_endpoints \in BOOLEAN
    /\ host = "pool.local"
    /\ device_name = "Pool"
    /\ disk = EmptyDir

NextRun ==
    \/ Connect
    \/ DeviceInfo
    \/ ConnectionFails
    \/ ListProbedEntities
    \/ TestRestEndpoints
    \/ SessionGet
    \/ GetResponds
    \/ GetRaises
    \/ JsonParsed
    \/ JsonRaises
    \/ TextRead
    \/ TextRaises
    \/ GenerateWebInterface
    \/ Return
    \/ Disconnect
    \/ Exit

SpecRun == InitRun /\ [][NextRun]_vars

----------------------------------------------------------------------------
(* main, twice on the same device: once with --timed and once without *)

\* the program is started again with the other setting of --timed; what the
\* first run was given, was answered and did is kept for the comparison
RunOtherMode ==
    /\ pc = "done"
    /\ recording
    /\ earlier = <<>>
    /\ earlier' = <<[timed     |-> timed,
                     entities  |-> entities,
                     responses |-> responses,
                     result    |-> result,
                     summary   |-> summary]>>
    /\ timed' = ~timed
    /\ pc' = "connect"
    /\ entities' = <<>>
    /\ entity_groups' = EmptyGroups
    /\ rest_endpoints' = <<>>
    /\ skipped_entities' = <<>>
    /\ printed' = <<>>
    /\ sections' = <<>>
    /\ result' = NotReturned
    /\ client' = "created"
    /\ probe_i' = 0
    /\ success_count' = 0
    /\ fail_count' = 0
    /\ requests' = <<>>
    /\ response' = 0
    /\ summary' = <<>>
    /\ responses' = <<>>
    /\ UNCHANGED <<web_lang, host, device_name, test_endpoints, exit_status>>
    /\ UNCHANGED <<recording, files_vars, page_vars, control_vars>>

\* the devices of the comparison: a button, alone or before sensors
TimedEntityLists ==
    {l \in ProbedEntityLists :
        /\ Len(l) >= 1
        /\ l[1].object_id = "b"
        /\ \A k \in 2..Len(l) : l[k].object_id = "a"}

InitTimed ==
    /\ BeforeRun
    /\ recording = TRUE
    /\ PageClosed
    /\ timed \in BOOLEAN
    /\ web_lang = ""
    /\ test_endpoints = TRUE
    /\ host = "pool.local"
    /\ device_name = "Pool"
    /\ disk = EmptyDir

NextTimed ==
    \/ Connect
    \/ DeviceInfo
    \/ ListEntitiesFrom(TimedEntityLists)
    \/ TestRestEndpoints
    \/ SessionGet
    \/ GetResponds
    \/ GetRaises
    \/ JsonParsed
    \/ JsonRaises
    \/ TextRead
    \/ TextRaises
    \/ GenerateWebInterface
    \/ Return
    \/ Disconnect
    \/ RunOtherMode

SpecTimed == InitTimed /\ [][NextTimed]_vars

----------------------------------------------------------------------------
(* generate_web_interface called more than once on one directory *)

MaxCalls == 2

Hosts == {"pool.local", "10.0.0.7"}

DeviceNames == {"Pool", "Spa"}

SensorA == [type_name |-> <<"Sensor", "Info">>, name |-> "A", object_id |-> "a"]

ButtonB == [type_name |-> <<"Button", "Info">>, name |-> "B", object_id |-> "b"]

SelectC ==
    [type_name |-> <<"Select", "Info">>, name |-> "A", object_id |-> "c",
     options |-> <<"a", "b">>]

\* the entities the device has in one run or another
DashboardEntityLists ==
    {<<>>,
     <<WithKey(SensorA, 1)>>,
     <<WithKey(SensorA, 1), WithKey(ButtonB, 2)>>,
     <<WithKey(ButtonB, 1), WithKey(SensorA, 2)>>,
     <<WithKey(SelectC, 1), WithKey(SensorA, 2)>>}

InitGenerate ==
    /\ BeforeRun
    /\ recording = FALSE
    /\ PageClosed
    /\ timed = FALSE
    /\ test_endpoints = FALSE
    /\ web_lang \in WebLangs \ {""}
    /\ host \in Hosts
    /\ device_name \in DeviceNames
    /\ disk \in InitialDirs

\* the program is run again with the same arguments, on the same directory
RunAgain ==
    /\ pc = "done"
    /\ Len(bundles) < MaxCalls
    /\ pc' = "connect"
    /\ entities' = <<>>
    /\ entity_groups' = EmptyGroups
    /\ rest_endpoints' = <<>>
    /\ skipped_entities' = <<>>
    /\ printed' = <<>>
    /\ sections' = <<>>
    /\ result' = NotReturned
    /\ client' = "created"
    /\ UNCHANGED <<timed, web_lang, host, device_name, test_endpoints, exit_status>>
    /\ UNCHANGED <<probe_vars, files_vars, page_vars, history_vars, control_vars>>

ListDashboardEntities == ListEntitiesFrom(DashboardEntityLists)

NextGenerate ==
    \/ Connect
    \/ DeviceInfo
    \/ ConnectionFails
    \/ ListDashboardEntities
    \/ GenerateWebInterface
    \/ Return
    \/ Disconnect
    \/ RunAgain

SpecGenerate == InitGenerate /\ [][NextGenerate]_vars

----------------------------------------------------------------------------
(* The script of index.html.  One action per event handler run: the        *)
(* script's load, a click, a timer callback, the end of a request.         *)
(* A timer handle is a positive number, null is 0.  The requests in flight *)
(* are kept in the order they were sent; they end in any order.            *)

MaxTimers == 2

MaxInFlight == 4

\* data.state of a response, shown by the card
StateValues == {"ON", "OFF"}

\* the cards of the document: <div class="state">--</div> in each
CardsOfDocument(secs) ==
    [id \in UNION {{secs[n].cards[c].id : c \in 1..Len(secs[n].cards)} : n \in 1..Len(secs)}
        |-> "--"]

\* getEntity(endpoint): fetch(`${BASE_URL}${endpoint}`)
GetEntity(endpoint) ==
    [method |-> GenerateApiCode(host, web_lang).getEntity.method, url |-> endpoint]

\* fetchState(ep) up to its await: no request when the card is missing.
\* (overtaken is history: a request issued later for the same endpoint has
\* been answered already.)
FetchStateRequestsIn(ep, document_cards) ==
    IF ("card-" \o ep.object_id) \in DOMAIN document_cards
        THEN <<[object_id |-> ep.object_id, endpoint |-> ep.endpoint,
                request |-> GetEntity(ep.endpoint), overtaken |-> FALSE]>>
        ELSE <<>>

FetchStateRequests(ep) == FetchStateRequestsIn(ep, cards)

\* refreshAll(): fetchState for every entity with GET, in the order of ENTITIES
RECURSIVE RefreshAllRequestsIn(_, _)
RefreshAllRequestsIn(eps, document_cards) ==
    IF eps = <<>> THEN <<>>
    ELSE (IF HasGet(Head(eps)) THEN FetchStateRequestsIn(Head(eps), document_cards)
                               ELSE <<>>)
             \o RefreshAllRequestsIn(Tail(eps), document_cards)

RefreshAllRequests(eps) == RefreshAllRequestsIn(eps, cards)

\* the run of refreshAll()
RefreshAll ==
    /\ Len(in_flight) + Len(RefreshAllRequests(ENTITIES)) <= MaxInFlight
    /\ in_flight' = in_flight \o RefreshAllRequests(ENTITIES)

\* the script runs: let autoInterval = null, and the initial refreshAll()
LoadPage ==
    /\ page = "closed"
    /\ page' = "open"
    /\ autoInterval' = 0
    /\ autoBtn' = [textContent |-> GenerateHtml(host, device_name, ENTITIES, web_lang).autoBtn,
                   active |-> FALSE]
    /\ cards' = CardsOfDocument(GenerateHtml(host, device_name, ENTITIES, web_lang).sections)
    /\ in_flight' = RefreshAllRequestsIn(ENTITIES, cards')
    /\ latest' = IF recording THEN cards' ELSE latest
    /\ UNCHANGED <<ENTITIES, timers, timer_count>>
    /\ UNCHANGED <<post_log, timeouts, fetched_for>>
    /\ UNCHANGED <<info_vars, run_vars, probe_vars, files_vars, history_vars>>

\* <button onclick="refreshAll()">
ClickRefreshAll ==
    /\ page = "open"
    /\ RefreshAll
    /\ UNCHANGED <<page, ENTITIES, autoInterval, timers, timer_count, autoBtn, cards>>
    /\ UNCHANGED <<info_vars, run_vars, probe_vars, files_vars, history_vars, control_vars>>

\* toggleAuto() that starts a timer whatever autoInterval holds
ToggleAutoRestart ==
    /\ page = "open"
    /\ timer_count < MaxTimers
    /\ timer_count' = timer_count + 1
    /\ timers' = timers \cup {timer_count + 1}
    /\ autoInterval' = timer_count + 1
    /\ autoBtn' = [textContent |-> "Auto: ON (5s)", active |-> TRUE]
    /\ RefreshAll
    /\ UNCHANGED <<page, ENTITIES, cards>>
    /\ UNCHANGED <<info_vars, run_vars, probe_vars, files_vars, history_vars, control_vars>>

\* toggleAuto() without the call of clearInterval
ToggleAutoNoClear ==
    /\ page = "open"
    /\ IF autoInterval # 0
          THEN /\ timers' = timers
               /\ autoInterval' = 0
               /\ autoBtn' = [textContent |-> "Auto: OFF", active |-> FALSE]
               /\ UNCHANGED <<timer_count, in_flight>>
          ELSE /\ timer_count < MaxTimers
               /\ timer_count' = timer_count + 1
               /\ timers' = timers \cup {timer_count + 1}
               /\ autoInterval' = timer_count + 1
               /\ autoBtn' = [textContent |-> "Auto: ON (5s)", active |-> TRUE]
               /\ RefreshAll
    /\ UNCHANGED <<page, ENTITIES, cards>>
    /\ UNCHANGED <<info_vars, run_vars, probe_vars, files_vars, history_vars, control_vars>>

\* <button id="autoBtn" onclick="toggleAuto()">
ToggleAuto ==
    /\ page = "open"
    /\ IF autoInterval # 0
          THEN /\ timers' = timers \ {autoInterval}
               /\ autoInterval' = 0
               /\ autoBtn' = [textContent |-> "Auto: OFF", active |-> FALSE]
               /\ UNCHANGED <<timer_count, in_flight>>
          ELSE /\ timer_count < MaxTimers
               /\ timer_count' = timer_count + 1
               /\ timers' = timers \cup {timer_count + 1}
               /\ autoInterval' = timer_count + 1
               /\ autoBtn' = [textContent |-> "Auto: ON (5s)", active |-> TRUE]
               /\ RefreshAll
    /\ UNCHANGED <<page, ENTITIES, cards>>
    /\ UNCHANGED <<info_vars, run_vars, probe_vars, files_vars, history_vars, control_vars>>

\* 5000 ms have passed on a timer that is set: its callback refreshAll runs
TimerFires ==
    /\ page = "open"
    /\ timers # {}
    /\ RefreshAll
    /\ UNCHANGED <<page, ENTITIES, autoInterval, timers, timer_count, autoBtn, cards>>
    /\ UNCHANGED <<info_vars, run_vars, probe_vars, files_vars, history_vars, control_vars>>

\* doAction(endpoint, action, oid) calls postAction(endpoint, action):
\* fetch(`${BASE_URL}${endpoint}/${action}`, { method: 'POST' })
PostAction(endpoint, action) ==
    [method |-> GenerateApiCode(host, web_lang).postAction.method,
     url    |-> endpoint \o "/" \o action]

\* in_flight without its k-th request
Without(s, k) == SubSeq(s, 1, k - 1) \o SubSeq(s, k + 1, Len(s))

\* the card a request was sent for, with its state text set
CardShows(req, text) ==
    [cards EXCEPT !["card-" \o req.object_id] = text]

\* history: the k-th request is answered, so the requests issued before it
\* for the same endpoint and not yet answered are overtaken
Overtake(s, k) ==
    [j \in 1..Len(s) |->
        IF j < k /\ s[j].endpoint = s[k].endpoint
            THEN [s[j] EXCEPT !.overtaken = TRUE]
            ELSE s[j]]

\* the await of the k-th request ends and fetchState writes text into the
\* state element of the card
Answered(k, text) ==
    /\ cards' = CardShows(in_flight[k], text)
    /\ in_flight' = Without(IF recording THEN Overtake(in_flight, k) ELSE in_flight, k)
    /\ latest' = IF recording /\ ~in_flight[k].overtaken
                     THEN [latest EXCEPT !["card-" \o in_flight[k].object_id] = text]
                     ELSE latest

\* await getEntity(ep.endpoint) returns: stateEl.textContent = val
GetEntityReturns ==
    /\ page = "open"
    /\ \E k \in 1..Len(in_flight), val \in StateValues : Answered(k, val)
    /\ UNCHANGED <<page, ENTITIES, autoInterval, timers, timer_count, autoBtn>>
    /\ UNCHANGED <<post_log, timeouts, fetched_for>>
    /\ UNCHANGED <<info_vars, run_vars, probe_vars, files_vars, history_vars>>

\* await getEntity(ep.endpoint) throws: stateEl.textContent = 'Error'
GetEntityThrows ==
    /\ page = "open"
    /\ \E k \in 1..Len(in_flight) : Answered(k, "Error")
    /\ UNCHANGED <<page, ENTITIES, autoInterval, timers, timer_count, autoBtn>>
    /\ UNCHANGED <<post_log, timeouts, fetched_for>>
    /\ UNCHANGED <<info_vars, run_vars, probe_vars, files_vars, history_vars>>

\* the dashboards that are opened: those written for DashboardEntityLists
InitPage ==
    /\ BeforeRun
    /\ recording = FALSE
    /\ timed = FALSE
    /\ test_endpoints = FALSE
    /\ web_lang = "js"
    /\ host = "pool.local"
    /\ device_name = "Pool"
    /\ disk = EmptyDir
    /\ page = "closed"
    /\ \E es \in DashboardEntityLists :
          ENTITIES = GenerateHtml(host, device_name, Synthesize(es).rest_endpoints,
                                  web_lang).ENTITIES
    /\ autoInterval = 0
    /\ timers = {}
    /\ timer_count = 0
    /\ autoBtn = [textContent |-> "", active |-> FALSE]
    /\ in_flight = <<>>
    /\ cards = <<>>
    /\ post_log = <<>>
    /\ timeouts = {}
    /\ fetched_for = <<>>
    /\ latest = <<>>

NextPage ==
    \/ LoadPage
    \/ ClickRefreshAll
    \/ ToggleAuto
    \/ TimerFires
    \/ GetEntityReturns
    \/ GetEntityThrows

SpecPage == InitPage /\ [][NextPage]_vars

----------------------------------------------------------------------------
(* The controls of the dashboard: doAction, doSetValue, doSetTime and      *)
(* doSetOption of index.html with postAction, postValue and postTime of    *)
(* the API client.  A string that the script takes apart (the value of an  *)
(* input) is a sequence of its characters.                                 *)

MaxPosts == 1

\* the document of the page is the index.html that was generated: its
\* cards in document order
RECURSIVE Flatten(_)
Flatten(seqs) ==
    IF seqs = <<>> THEN <<>> ELSE Head(seqs) \o Flatten(Tail(seqs))

DocumentCards == Flatten([n \in 1..Len(sections) |-> sections[n].cards])

\* the buttons of the document with this handler: the card each is in, and
\* its onclick
Buttons(handler) ==
    LET cs == DocumentCards
    IN  UNION {{[card |-> c, onclick |-> cs[c].controls[k].onclick] : k \in
                    {j \in 1..Len(cs[c].controls) :
                        /\ cs[c].controls[j].tag = "button"
                        /\ cs[c].controls[j].onclick[1] = handler}}
                  : c \in 1..Len(cs)}

\* the input or select of a card, <<>> when it has none
InputOfCard(c) ==
    LET with_id == SelectSeq(DocumentCards[c].controls, LAMBDA el : "id" \in DOMAIN el)
    IN  IF with_id = <<>> THEN <<>> ELSE <<Head(with_id)>>

\* document.getElementById(id) among the inputs and selects: the card of the
\* first element of the document with the id, 0 for null
CardOfElementById(id) ==
    LET cs == DocumentCards
        with_id == {c \in 1..Len(cs) : InputOfCard(c) # <<>> /\ InputOfCard(c)[1].id = id}
    IN  IF with_id = {} THEN 0 ELSE CHOOSE c \in with_id : \A o \in with_id : c <= o

\* what the user may have put into an element when the button is clicked:
\* nothing, a number, a text, a time with or without seconds, an option
InputValues(el) ==
    IF el.tag = "select"
        THEN IF el.options = <<>> THEN {<<>>}
             ELSE {<<el.options[k]>> : k \in 1..Len(el.options)}
    ELSE IF el.type = "number" THEN {<<>>, <<"5">>}
    ELSE IF el.type = "time"
        THEN {<<>>, <<"0", "7", ":", "3", "0">>,
              <<"0", "7", ":", "3", "0", ":", "1", "5">>}
    ELSE {<<>>, <<"a", " ">>}

\* encodeURIComponent(String(value)): letters, digits and - _ . ! ~ * ' ( )
\* stay, every other character becomes its percent code
RECURSIVE EncodeURIComponent(_)
EncodeURIComponent(chars) ==
    LET PercentCode(c) == IF c = " " THEN "%20"
                          ELSE IF c = ":" THEN "%3A"
                          ELSE IF c = "&" THEN "%26"
                          ELSE c
    IN  IF chars = <<>> THEN ""
        ELSE PercentCode(Head(chars)) \o EncodeURIComponent(Tail(chars))

\* value.split(':')
RECURSIVE Split(_)
Split(chars) ==
    IF \A k \in 1..Len(chars) : chars[k] # ":"
        THEN <<chars>>
    ELSE LET at == CHOOSE k \in 1..Len(chars) :
                      chars[k] = ":" /\ \A j \in 1..(k - 1) : chars[j] # ":"
         IN  <<SubSeq(chars, 1, at - 1)>> \o Split(SubSeq(chars, at + 1, Len(chars)))

\* parseInt(part): the number of the leading digits, NaN (here <<>>)
\* when there is none, as for parseInt(undefined)
RECURSIVE ParseDigits(_, _)
ParseDigits(chars, n) ==
    LET digits == <<"0", "1", "2", "3", "4", "5", "6", "7", "8", "9">>
        IsDigit(c) == \E d \in 1..10 : digits[d] = c
        DigitValue(c) == (CHOOSE d \in 1..10 : digits[d] = c) - 1
    IN  IF chars = <<>> \/ ~IsDigit(Head(chars)) THEN n
        ELSE ParseDigits(Tail(chars),
                         <<10 * (IF n = <<>> THEN 0 ELSE n[1]) + DigitValue(Head(chars))>>)

ParseInt(part) == IF part = <<>> THEN <<>> ELSE ParseDigits(part[1], <<>>)

\* postValue(endpoint, value)
PostValue(endpoint, value) ==
    [method |-> GenerateApiCode(host, web_lang).postValue.method,
     url    |-> endpoint \o "/set?value=" \o EncodeURIComponent(value)]

\* postTime(endpoint, hour, minute, second)
PostTime(endpoint, hour, minute, second) ==
    LET InTemplate(n) == IF n = <<>> THEN "NaN" ELSE ToString(n[1])
    IN  [method |-> GenerateApiCode(host, web_lang).postTime.method,
         url    |-> endpoint \o "/set?hour=" \o InTemplate(hour)
                             \o "&minute=" \o InTemplate(minute)
                             \o "&second=" \o InTemplate(second)]

\* the oid argument of a handler, the last of its onclick
Oid(onclick) == onclick[Len(onclick)]

\* what the inputs hold when a button is clicked: own is the value in the
\* input of the button's card, read the value in the element the handler
\* finds by its id, which is the same element unless an earlier card has an
\* element of that id
ValuesAtClick(button, found) ==
    LET own == InputOfCard(button.card)
    IN  IF found = button.card
            THEN {[own |-> v, read |-> v] : v \in InputValues(own[1])}
        ELSE {[own |-> o, read |-> v] :
                 o \in (IF own = <<>> THEN {<<>>} ELSE InputValues(own[1])),
                 v \in InputValues(InputOfCard(found)[1])}

\* a click is logged with the value in the input of the card, the value the
\* handler read and the request sent, <<>> when the handler returned before
\* its await
Clicked(button, own, input, request) ==
    /\ Len(post_log) < MaxPosts
    /\ post_log' = Append(post_log,
                          [card    |-> button.card,
                           onclick |-> button.onclick,
                           own     |-> own,
                           input   |-> input,
                           request |-> request,
                           outcome |-> IF request = <<>> THEN "none" ELSE "sent"])

\* doAction(endpoint, action, oid) up to the await of postAction
DoAction ==
    /\ page = "open"
    /\ \E button \in Buttons("doAction") :
          Clicked(button, <<>>, <<>>,
                  <<PostAction(button.onclick[2], button.onclick[3])>>)
    /\ UNCHANGED <<timeouts, fetched_for, latest>>
    /\ UNCHANGED <<info_vars, run_vars, probe_vars, files_vars, page_vars, history_vars>>

\* doSetValue(endpoint, oid) up to the await of postValue
DoSetValue ==
    /\ page = "open"
    /\ \E button \in Buttons("doSetValue") :
          LET input == CardOfElementById("input-" \o Oid(button.onclick))
          IN  IF input = 0
                  THEN Clicked(button, <<>>, <<>>, <<>>)
                  ELSE \E value \in ValuesAtClick(button, input) :
                          Clicked(button, value.own, value.read,
                                  <<PostValue(button.onclick[2], value.read)>>)
    /\ UNCHANGED <<timeouts, fetched_for, latest>>
    /\ UNCHANGED <<info_vars, run_vars, probe_vars, files_vars, page_vars, history_vars>>

\* const h = parseInt(parts[0]), m = parseInt(parts[1]),
\*       s = parts[2] ? parseInt(parts[2]) : 0; postTime(endpoint, h, m, s)
PostTimeOfParts(endpoint, parts) ==
    LET PartAt(k) == IF k <= Len(parts) THEN <<parts[k]>> ELSE <<>>
    IN  PostTime(endpoint,
                 ParseInt(PartAt(1)),
                 ParseInt(PartAt(2)),
                 IF PartAt(3) \notin {<<>>, <<<<>>>>}
                     THEN ParseInt(PartAt(3)) ELSE <<0>>)

\* doSetTime(endpoint, oid) up to the await of postTime
DoSetTime ==
    /\ page = "open"
    /\ \E button \in Buttons("doSetTime") :
          LET input == CardOfElementById("input-" \o Oid(button.onclick))
          IN  IF input = 0
                  THEN Clicked(button, <<>>, <<>>, <<>>)
                  ELSE \E value \in ValuesAtClick(button, input) :
                          Clicked(button, value.own, value.read,
                                  IF value.read = <<>> THEN <<>>
                                  ELSE <<PostTimeOfParts(button.onclick[2],
                                                         Split(value.read))>>)
    /\ UNCHANGED <<timeouts, fetched_for, latest>>
    /\ UNCHANGED <<info_vars, run_vars, probe_vars, files_vars, page_vars, history_vars>>

\* doSetOption(endpoint, oid) up to the await of postValue
DoSetOption ==
    /\ page = "open"
    /\ \E button \in Buttons("doSetOption") :
          LET sel == CardOfElementById("input-" \o Oid(button.onclick))
          IN  IF sel = 0
                  THEN Clicked(button, <<>>, <<>>, <<>>)
                  ELSE \E value \in ValuesAtClick(button, sel) :
                          Clicked(button, value.own, value.read,
                                  <<PostValue(button.onclick[2], value.read)>>)
    /\ UNCHANGED <<timeouts, fetched_for, latest>>
    /\ UNCHANGED <<info_vars, run_vars, probe_vars, files_vars, page_vars, history_vars>>

\* the await of the POST returns: setTimeout(() => {...}, 300)
PostReturns ==
    /\ page = "open"
    /\ \E n \in 1..Len(post_log) :
          /\ post_log[n].outcome = "sent"
          /\ post_log' = [post_log EXCEPT ![n].outcome = "ok"]
          /\ timeouts' = timeouts \cup {[n |-> n, oid |-> Oid(post_log[n].onclick)]}
    /\ UNCHANGED <<fetched_for, latest>>
    /\ UNCHANGED <<info_vars, run_vars, probe_vars, files_vars, page_vars, history_vars>>

\* the await of the POST throws, for no response or a response that is not
\* ok: catch(e) { console.error(e); }
PostThrows ==
    /\ page = "open"
    /\ \E n \in 1..Len(post_log) :
          /\ post_log[n].outcome = "sent"
          /\ post_log' = [post_log EXCEPT ![n].outcome = "failed"]
          /\ timeouts' = timeouts
    /\ UNCHANGED <<fetched_for, latest>>
    /\ UNCHANGED <<info_vars, run_vars, probe_vars, files_vars, page_vars, history_vars>>

\* 300 ms after the POST returned: ep = ENTITIES.find(e => e.object_id ===
\* oid), <<>> for undefined; if (ep) fetchState(ep)
TimeoutFires ==
    /\ page = "open"
    /\ \E t \in timeouts :
          LET found == SelectSeq(ENTITIES, LAMBDA e : e.object_id = t.oid)
              ep == IF found = <<>> THEN <<>> ELSE <<Head(found)>>
              sent == IF ep = <<>> THEN <<>> ELSE FetchStateRequests(ep[1])
          IN  /\ Len(in_flight) + Len(sent) <= MaxInFlight
              /\ in_flight' = in_flight \o sent
              /\ fetched_for' = fetched_for \o
                     [k \in 1..Len(sent) |-> [n |-> t.n, endpoint |-> sent[k].endpoint]]
              /\ timeouts' = timeouts \ {t}
    /\ UNCHANGED <<page, ENTITIES, autoInterval, timers, timer_count, autoBtn, cards>>
    /\ UNCHANGED <<post_log, latest>>
    /\ UNCHANGED <<info_vars, run_vars, probe_vars, files_vars, history_vars>>

\* an entity of a category under a name
ControlEntity(category, name, oid) ==
    [type_name |-> <<category, "Info">>, name |-> name, object_id |-> oid]

\* the devices whose dashboards are used: every kind of control, and
\* entities of two categories under one name, whose object ids are the same
ControlEntityLists ==
    {<<WithKey(ControlEntity("Switch", "S", "s"), 1)>>,
     <<WithKey(ControlEntity("Time", "T", "t"), 1)>>,
     <<WithKey(ControlEntity("Number", "N", "n"), 1), WithKey(ButtonB, 2)>>,
     <<WithKey(SelectC, 1), WithKey(ControlEntity("Text", "X", "x"), 2)>>,
     <<WithKey(ControlEntity("Climate", "K", "k"), 1)>>,
     <<WithKey(SensorA, 1), WithKey(ControlEntity("Number", "A", "a"), 2)>>,
     <<WithKey(ControlEntity("Number", "A", "a"), 1),
       WithKey(ControlEntity("Time", "A", "a"), 2)>>}

\* the program has run with --web for one of the devices, and the page it
\* wrote is about to be opened
InitControls ==
    /\ recording = TRUE
    /\ timed = FALSE
    /\ test_endpoints = FALSE
    /\ web_lang = "js"
    /\ host = "pool.local"
    /\ device_name = "Pool"
    /\ pc = "exited"
    /\ client = "disconnected"
    /\ \E es \in ControlEntityLists :
          LET synthesized == Synthesize(es)
              html == GenerateHtml(host, device_name, synthesized.rest_endpoints, web_lang)
          IN  /\ entities = es
              /\ entity_groups = EmptyGroups
              /\ rest_endpoints = synthesized.rest_endpoints
              /\ skipped_entities = synthesized.skipped_entities
              /\ printed = <<>>
              /\ sections = html.sections
              /\ result = ReturnedList(synthesized.rest_endpoints)
              /\ exit_status = <<0>>
              /\ ENTITIES = html.ENTITIES
    /\ probe_i = 0
    /\ success_count = 0
    /\ fail_count = 0
    /\ requests = <<>>
    /\ response = 0
    /\ summary = <<>>
    /\ disk = EmptyDir
    /\ bundles = <<>>
    /\ responses = <<>>
    /\ earlier = <<>>
    /\ page = "closed"
    /\ autoInterval = 0
    /\ timers = {}
    /\ timer_count = 0
    /\ autoBtn = [textContent |-> "", active |-> FALSE]
    /\ in_flight = <<>>
    /\ cards = <<>>
    /\ post_log = <<>>
    /\ timeouts = {}
    /\ fetched_for = <<>>
    /\ latest = <<>>

NextControls ==
    \/ LoadPage
    \/ GetEntityReturns
    \/ GetEntityThrows
    \/ DoAction
    \/ DoSetValue
    \/ DoSetTime
    \/ DoSetOption
    \/ PostReturns
    \/ PostThrows
    \/ TimeoutFires

SpecControls == InitControls /\ [][NextControls]_vars

----------------------------------------------------------------------------
(* Vocabulary of the properties *)

Entity(i) == entities[i]

Range(s) == {s[k] : k \in 1..Len(s)}

\* no other entity of the list has the object id of entity i
UniqueId(i) ==
    \A j \in 1..Len(entities) : j # i => Entity(j).object_id # Entity(i).object_id

DistinctIds == \A i \in 1..Len(entities) : UniqueId(i)

\* which elements of an output list carry the name and object id e has
SameEntity(x, e) == x.entity = e.name /\ x.object_id = e.object_id

CountIn(s, Test(_)) == Cardinality({k \in 1..Len(s) : Test(s[k])})

DescriptorsOf(i) == {d \in Range(rest_endpoints) : SameEntity(d, Entity(i))}

SkippedOf(i) == {x \in Range(skipped_entities) : SameEntity(x, Entity(i))}

\* the line of entity i is in group g of the entity listing
ListedIn(i, g) ==
    \E k \in 1..Len(entity_groups[g]) :
        entity_groups[g][k] =
            "  [" \o ToString(Entity(i).key) \o "] " \o Entity(i).name
                \o " (" \o Entity(i).object_id \o ")"

\* the type name of entity i without its "Info"
Kind(i) == SelectSeq(Entity(i).type_name, LAMBDA w : w # "Info")

\* the substrings of the sixteen classification rules, in the order of the
\* classifier's contract
ClassifierOrder ==
    << <<"Binary", "Sensor">>, <<"Text", "Sensor">>, <<"Sensor">>, <<"Switch">>,
       <<"Button">>, <<"Light">>, <<"Fan">>, <<"Cover">>, <<"Climate">>,
       <<"Number">>, <<"Select">>, <<"Lock">>, <<"Time">>, <<"Text">>,
       <<"MediaPlayer">>, <<"Camera">> >>

ClassifierCategory ==
    <<"Binary Sensor", "Text Sensor", "Sensor", "Switch", "Button", "Light",
      "Fan", "Cover", "Climate", "Number", "Select", "Lock", "Time", "Text",
      "Media Player", "Camera">>

MatchesRule(i, r) == Contains(ClassifierOrder[r], Kind(i))

MatchesNoRule(i) == \A r \in 1..Len(ClassifierOrder) : ~MatchesRule(i, r)

\* the entities have been listed and synthesis has run
Synthesized == pc \in {"web", "return"} \/ (pc \in {"disconnect", "done"} /\ result # ReturnedFalse)

----------------------------------------------------------------------------
(* C1: synthesis partitions the entity list.  The descriptors and the      *)
(* skipped entries together are as many as the entities; for every name    *)
(* and object id, the entities that carry them are as many as the          *)
(* descriptors plus the skipped entries that carry them, so an entity with *)
(* a unique id is in exactly one output; and an entity whose kind matches  *)
(* no rule is in `skipped` and has no descriptor.                          *)
C1_Partition ==
    Synthesized =>
        /\ Len(rest_endpoints) + Len(skipped_entities) = Len(entities)
        /\ \A i \in 1..Len(entities) :
              LET Same(x) == SameEntity(x, Entity(i))
                  SameE(e) == e.name = Entity(i).name /\ e.object_id = Entity(i).object_id
              IN  /\ CountIn(rest_endpoints, Same) + CountIn(skipped_entities, Same)
                         = CountIn(entities, SameE)
                  /\ UniqueId(i) =>
                         Cardinality(DescriptorsOf(i)) + Cardinality(SkippedOf(i)) = 1
                  /\ (UniqueId(i) /\ MatchesNoRule(i)) =>
                         /\ DescriptorsOf(i) = {}
                         /\ \E x \in SkippedOf(i) : x.type = Kind(i)

\* an entity of an unknown kind was skipped next to one that got a descriptor
C1_Witness ==
    /\ pc = "done"
    /\ Len(entities) = 2
    /\ Len(rest_endpoints) = 1
    /\ Len(skipped_entities) = 1
    /\ skipped_entities[1].type = <<"WeirdThing">>
    /\ DistinctIds

----------------------------------------------------------------------------
(* C2, as stated: every kind that contains "Binary" and "Sensor", in any   *)
(* position, gets a Binary Sensor descriptor and is listed under Binary    *)
(* Sensors, never under Sensors.                                           *)
C2_AnyPosition ==
    Synthesized =>
        \A i \in 1..Len(entities) :
            (/\ UniqueId(i)
             /\ Contains(<<"Binary">>, Entity(i).type_name)
             /\ Contains(<<"Sensor">>, Entity(i).type_name)) =>
                /\ DescriptorsOf(i) # {}
                /\ \A d \in DescriptorsOf(i) : d.type = "Binary Sensor"
                /\ ListedIn(i, "Binary Sensors")
                /\ ~ListedIn(i, "Sensors")

(* C2, amended: every kind that, with "Info" taken out of the type name,   *)
(* contains "Binary" immediately followed by "Sensor" gets a Binary Sensor *)
(* descriptor and is listed under Binary Sensors, never under Sensors.     *)
C2_BinarySensor ==
    Synthesized =>
        \A i \in 1..Len(entities) :
            (UniqueId(i) /\ Contains(<<"Binary", "Sensor">>, Kind(i))) =>
                /\ DescriptorsOf(i) # {}
                /\ \A d \in DescriptorsOf(i) : d.type = "Binary Sensor"
                /\ ListedIn(i, "Binary Sensors")
                /\ ~ListedIn(i, "Sensors")

\* a binary sensor whose name also holds the word of a later rule, and whose
\* "Info" stands between the two words
C2_Witness ==
    /\ pc = "done"
    /\ Len(entities) = 1
    /\ Entity(1).type_name = <<"Switch", "Binary", "Info", "Sensor">>
    /\ Len(rest_endpoints) = 1
    /\ rest_endpoints[1].type = "Binary Sensor"
    /\ ListedIn(1, "Binary Sensors")

----------------------------------------------------------------------------
(* C3, as stated: every kind that contains "Text" and "Sensor", in any     *)
(* position, gets a Text Sensor descriptor, never a Sensor one.            *)
C3_AnyPosition ==
    Synthesized =>
        \A i \in 1..Len(entities) :
            (/\ UniqueId(i)
             /\ Contains(<<"Text">>, Entity(i).type_name)
             /\ Contains(<<"Sensor">>, Entity(i).type_name)) =>
                /\ DescriptorsOf(i) # {}
                /\ \A d \in DescriptorsOf(i) : d.type = "Text Sensor"

(* C3, amended: every kind that, with "Info" taken out of the type name,   *)
(* contains "Text" immediately followed by "Sensor" and does not contain   *)
(* "BinarySensor" gets a Text Sensor descriptor, never a Sensor one, and   *)
(* the entity listing does not put it under Sensors.                       *)
C3_TextSensor ==
    Synthesized =>
        \A i \in 1..Len(entities) :
            (/\ UniqueId(i)
             /\ Contains(<<"Text", "Sensor">>, Kind(i))
             /\ ~Contains(<<"Binary", "Sensor">>, Kind(i))) =>
                /\ DescriptorsOf(i) # {}
                /\ \A d \in DescriptorsOf(i) : d.type = "Text Sensor"
                /\ ~ListedIn(i, "Sensors")

\* a text sensor whose name starts with a second "Sensor"
C3_Witness ==
    /\ pc = "done"
    /\ Len(entities) = 1
    /\ Entity(1).type_name = <<"Sensor", "Text", "Sensor">>
    /\ Len(rest_endpoints) = 1
    /\ rest_endpoints[1].type = "Text Sensor"

----------------------------------------------------------------------------
(* C4, as stated: the category of every descriptor is the category of the  *)
(* earliest rule, in the order BinarySensor, TextSensor, Sensor, Switch,   *)
(* Button, Light, ..., whose substring the kind contains.                  *)
C4_FirstMatchWins ==
    Synthesized =>
        \A i \in 1..Len(entities) :
            UniqueId(i) =>
                \A d \in DescriptorsOf(i) :
                    \E r \in 1..Len(ClassifierOrder) :
                        /\ MatchesRule(i, r)
                        /\ \A q \in 1..(r - 1) : ~MatchesRule(i, q)
                        /\ d.type = ClassifierCategory[r]

----------------------------------------------------------------------------
(* C5: the methods and the actions of every descriptor are those of the    *)
(* row of its category in the category-to-contract table.                  *)
GetOnly == [methods |-> <<"GET">>, actions |-> <<>>]

GetPost(actions) == [methods |-> <<"GET", "POST">>, actions |-> actions]

ContractTable ==
    "Binary Sensor" :> GetOnly
    @@ "Sensor" :> GetOnly
    @@ "Text Sensor" :> GetOnly
    @@ "Switch" :> GetPost(<<"turn_on", "turn_off", "toggle">>)
    @@ "Light" :> GetPost(<<"turn_on", "turn_off", "toggle">>)
    @@ "Fan" :> GetPost(<<"turn_on", "turn_off", "toggle">>)
    @@ "Button" :> GetPost(<<"press">>)
    @@ "Cover" :> GetPost(<<"open", "close", "stop">>)
    @@ "Lock" :> GetPost(<<"lock", "unlock">>)
    @@ "Climate" :> GetPost(<<"set mode, temperature">>)
    @@ "Number" :> GetPost(<<"set value">>)
    @@ "Select" :> GetPost(<<"set option">>)
    @@ "Time" :> GetPost(<<"set time">>)
    @@ "Text" :> GetPost(<<"set text">>)

C5_Contract ==
    \A k \in 1..Len(rest_endpoints) :
        LET d == rest_endpoints[k]
        IN  /\ d.type \in DOMAIN ContractTable
            /\ d.methods = ContractTable[d.type].methods
            /\ (IF "actions" \in DOMAIN d THEN d.actions ELSE <<>>)
                   = ContractTable[d.type].actions

\* a fan next to a sensor: a descriptor with actions and one without
C5_Witness ==
    /\ pc = "done"
    /\ Len(rest_endpoints) = 2
    /\ rest_endpoints[1].type = "Fan"
    /\ rest_endpoints[1].actions = <<"turn_on", "turn_off", "toggle">>
    /\ rest_endpoints[2].type = "Sensor"
    /\ "actions" \notin DOMAIN rest_endpoints[2]

----------------------------------------------------------------------------
(* C6, as stated: an entity that the entity listing puts under Other has   *)
(* no descriptor and is in `skipped`.                                      *)
C6_OtherIsTerminal ==
    Synthesized =>
        \A i \in 1..Len(entities) :
            (UniqueId(i) /\ ListedIn(i, "Other")) =>
                /\ DescriptorsOf(i) = {}
                /\ SkippedOf(i) # {}

----------------------------------------------------------------------------
(* C7: the path of every descriptor is "/", the slug of its category, "/", *)
(* the object id of its entity; and when the object ids of the entities    *)
(* are pairwise distinct, so are the paths of the descriptors.             *)
CategorySlug ==
    "Binary Sensor" :> "binary_sensor"
    @@ "Sensor" :> "sensor"
    @@ "Text Sensor" :> "text_sensor"
    @@ "Switch" :> "switch"
    @@ "Light" :> "light"
    @@ "Fan" :> "fan"
    @@ "Button" :> "button"
    @@ "Cover" :> "cover"
    @@ "Lock" :> "lock"
    @@ "Climate" :> "climate"
    @@ "Number" :> "number"
    @@ "Select" :> "select"
    @@ "Time" :> "time"
    @@ "Text" :> "text"

C7_Paths ==
    /\ \A k \in 1..Len(rest_endpoints) :
          LET d == rest_endpoints[k]
          IN  /\ d.endpoint = "/" \o CategorySlug[d.type] \o "/" \o d.object_id
              /\ \E i \in 1..Len(entities) : SameEntity(d, Entity(i))
    /\ DistinctIds =>
          \A k, l \in 1..Len(rest_endpoints) :
              k # l => rest_endpoints[k].endpoint # rest_endpoints[l].endpoint

\* a binary sensor and a sensor with different object ids
C7_Witness ==
    /\ pc = "done"
    /\ DistinctIds
    /\ Len(rest_endpoints) = 2
    /\ rest_endpoints[1].endpoint = "/binary_sensor/a"
    /\ rest_endpoints[2].endpoint = "/sensor/b"

----------------------------------------------------------------------------
(* The display order of the categories and sortedness by object id *)

DisplayOrder ==
    <<"Binary Sensor", "Sensor", "Text Sensor", "Switch", "Button", "Light",
      "Fan", "Cover", "Climate", "Number", "Select", "Lock", "Time", "Text">>

DisplayRank(t) == CHOOSE k \in 1..Len(DisplayOrder) : DisplayOrder[k] = t

\* the groups of a listing come in display order, none of them empty or twice
InDisplayOrder(types) ==
    \A g, h \in 1..Len(types) : g < h => DisplayRank(types[g]) < DisplayRank(types[h])

\* a sequence of object ids is in ascending order
Ascending(ids) ==
    \A a, b \in 1..Len(ids) : a < b => ~StrLess(ids[b], ids[a])

----------------------------------------------------------------------------
(* C8, as stated: the printed REST endpoint listing shows the groups in    *)
(* the fixed category order, leaves out the empty groups, shows every      *)
(* descriptor, and sorts the entries of each group by object id.           *)
C8_PrintedInDisplayOrder ==
    (Synthesized /\ ~timed /\ DistinctIds) =>
        /\ InDisplayOrder([g \in 1..Len(printed) |-> printed[g].ep_type])
        /\ \A g \in 1..Len(printed) :
              LET eps == printed[g].endpoints
              IN  /\ eps # <<>>
                  /\ \A k \in 1..Len(eps) : eps[k].type = printed[g].ep_type
                  /\ Ascending([k \in 1..Len(eps) |-> eps[k].object_id])

----------------------------------------------------------------------------
(* C9, as stated: the sections of the generated HTML come in the fixed     *)
(* category order, every descriptor has exactly one card, in the section   *)
(* of its category, and the cards of a section are sorted by object id.    *)
Generated ==
    /\ web_lang # ""
    /\ pc = "return" \/ (pc \in {"disconnect", "done"} /\ result # ReturnedFalse)

\* the object id in the id attribute of a card
CardObjectId(card) ==
    CHOOSE oid \in {d.object_id : d \in Range(rest_endpoints)} : card.id = "card-" \o oid

CardsOf(d) ==
    {<<n, c>> \in (1..Len(sections)) \X (1..Len(rest_endpoints)) :
        /\ c <= Len(sections[n].cards)
        /\ sections[n].cards[c].id = "card-" \o d.object_id
        /\ sections[n].cards[c].endpoint = d.endpoint}

C9_SectionsSortedById ==
    (Generated /\ DistinctIds) =>
        /\ InDisplayOrder([n \in 1..Len(sections) |-> sections[n].type])
        /\ \A k \in 1..Len(rest_endpoints) :
              LET d == rest_endpoints[k]
              IN  /\ CardsOf(d) # {}
                  /\ \A nc \in CardsOf(d) : sections[nc[1]].type = d.type
                  /\ Cardinality(CardsOf(d)) = 1
        /\ \A n \in 1..Len(sections) :
              Ascending([c \in 1..Len(sections[n].cards) |->
                            CardObjectId(sections[n].cards[c])])

----------------------------------------------------------------------------
(* C10: synthesis does not depend on the order of the entities.  For       *)
(* entities with pairwise distinct object ids, every permutation of the    *)
(* list yields the same set of descriptors, and the same sequence once the *)
(* descriptors are grouped by category and sorted by object id.            *)
Reorderings(s) ==
    {[k \in 1..Len(s) |-> s[f[k]]] :
        f \in {g \in [1..Len(s) -> 1..Len(s)] :
                  \A a, b \in 1..Len(s) : a # b => g[a] # g[b]}}

C10_OrderIndependent ==
    (Synthesized /\ DistinctIds) =>
        \A p \in Reorderings(entities) :
            LET other == Synthesize(p).rest_endpoints
            IN  /\ Range(other) = Range(rest_endpoints)
                /\ PrintedEndpoints(other) = PrintedEndpoints(rest_endpoints)
                /\ ~timed => PrintedEndpoints(other) = printed

\* two sensors of the same name, listed by the device in descending id order
C10_Witness ==
    /\ pc = "done"
    /\ ~timed
    /\ DistinctIds
    /\ Len(rest_endpoints) = 2
    /\ rest_endpoints[1].type = "Sensor" /\ rest_endpoints[1].object_id = "b"
    /\ rest_endpoints[2].type = "Sensor" /\ rest_endpoints[2].object_id = "a"
    /\ rest_endpoints[1].entity = rest_endpoints[2].entity
    /\ Len(printed) = 1
    /\ printed[1].endpoints = <<rest_endpoints[2], rest_endpoints[1]>>

----------------------------------------------------------------------------
(* C11: generation is deterministic.  Any two calls of                     *)
(* generate_web_interface that were given the same host, device name,      *)
(* descriptor list and flavor wrote files of the same names, in the same   *)
(* order, with identical contents, whatever the directory held before and  *)
(* whatever an earlier call left in it.                                    *)
C11_Deterministic ==
    \A i, j \in 1..Len(bundles) :
        bundles[i].args = bundles[j].args =>
            /\ bundles[i].names = bundles[j].names
            /\ bundles[i].files = bundles[j].files

\* two runs on a directory that held an older dashboard, the same device,
\* the TypeScript flavor: the second run has written its files
C11_Witness ==
    /\ Len(bundles) = 2
    /\ bundles[1].args = bundles[2].args
    /\ bundles[2].args.lang = "ts"
    /\ Len(bundles[2].args.rest_endpoints) = 2
    /\ "tsconfig.json" \in DOMAIN disk
    /\ disk["index.html"] = bundles[2].files["index.html"]

----------------------------------------------------------------------------
(* C12: the generated file set.  A call for the js flavor writes exactly   *)
(* api.js, index.html and package.json, a call for the ts flavor exactly   *)
(* api.ts, index.html, package.json and tsconfig.json, each once; so       *)
(* tsconfig.json is written if and only if the flavor is ts.               *)
FileSet(lang) ==
    IF lang = "js" THEN {"api.js", "index.html", "package.json"}
    ELSE {"api.ts", "index.html", "package.json", "tsconfig.json"}

C12_FileSet ==
    \A i \in 1..Len(bundles) :
        LET names == bundles[i].names
        IN  /\ {names[k] : k \in 1..Len(names)} = FileSet(bundles[i].args.lang)
            /\ Len(names) = Cardinality(FileSet(bundles[i].args.lang))
            /\ DOMAIN bundles[i].files = FileSet(bundles[i].args.lang)
            /\ (\E k \in 1..Len(names) : names[k] = "tsconfig.json")
                   <=> bundles[i].args.lang = "ts"

\* a js dashboard written into an empty directory: no tsconfig.json there
C12_Witness ==
    /\ Len(bundles) = 1
    /\ bundles[1].args.lang = "js"
    /\ DOMAIN disk = {"api.js", "index.html", "package.json"}

----------------------------------------------------------------------------
(* C13: the probe counts every probed endpoint exactly once.  Whatever the *)
(* responses were (200, another status, a timeout, a connection error, a   *)
(* failure while the body is read), the summary's successful and failed    *)
(* counts add up to the number of GET-capable descriptors.                 *)
C13_CountedOnce ==
    summary # <<>> =>
        summary[1].successful + summary[1].failed = Len(GetEndpoints(rest_endpoints))

----------------------------------------------------------------------------
(* C14: probe failures are isolated.  Whatever happened to the endpoints   *)
(* probed so far, the requests sent are the GET-capable descriptors' URLs  *)
(* in list order, each once; the probe of a device with such descriptors   *)
(* is left only with the summary printed and all of them requested, and    *)
(* never by an exception that fails the run.                               *)
ProbeIsOver == pc \in {"web", "return", "disconnect", "done", "exited"}

C14_Isolated ==
    LET get_endpoints == GetEndpoints(rest_endpoints)
    IN  /\ Len(requests) <= Len(get_endpoints)
        /\ \A k \in 1..Len(requests) : requests[k] = Url(host, get_endpoints[k])
        /\ pc \in {"await_get", "await_json", "await_text"} => Len(requests) = probe_i
        /\ pc = "get" => Len(requests) = probe_i - 1
        /\ (test_endpoints /\ get_endpoints # <<>> /\ ProbeIsOver) =>
              /\ summary # <<>>
              /\ Len(requests) = Len(get_endpoints)
              /\ result # ReturnedFalse

\* the first endpoint has been counted as failed, the second is being requested
C14_Witness ==
    /\ pc = "await_get"
    /\ probe_i = 2
    /\ fail_count >= 1
    /\ success_count = 0
    /\ requests = <<"http://pool.local/sensor/a", "http://pool.local/button/b">>

----------------------------------------------------------------------------
(* C15: what each outcome adds to the counters.  A response with status    *)
(* 200 adds 1 to successful and nothing to failed, whether its body was    *)
(* parsed as JSON or read as text; a request that raises (timeout,         *)
(* connection error) adds 1 to failed and nothing to successful; a         *)
(* response with another status adds 1 to failed when it arrives, and      *)
(* nothing more is added for it afterwards.                                *)
Counted(s, f) ==
    /\ success_count' = success_count + s
    /\ fail_count' = fail_count + f

C15_Outcomes ==
    [][/\ (JsonParsed \/ (TextRead /\ response = 200)) => Counted(1, 0)
       /\ GetRaises => Counted(0, 1)
       /\ (GetResponds /\ pc' # "await_json") => Counted(0, 1)
       /\ (pc = "await_text" /\ response # 200) => Counted(0, 0)]_vars

----------------------------------------------------------------------------
(* C16: the exit status.  The process exits with 0 when get_device_info    *)
(* connected, listed the entities and returned the descriptor list, also   *)
(* when the device has no REST-bearing entity and the list is empty; it    *)
(* exits with 1 when get_device_info returned False after a failure.       *)
C16_ExitStatus ==
    pc = "exited" =>
        exit_status = <<IF result.returned = "list" THEN 0 ELSE 1>>

----------------------------------------------------------------------------
(* C17: a connection failure aborts the whole run.  Once connecting or a   *)
(* query has failed there is no descriptor, no skipped entry, no request   *)
(* of the probe, no summary and no dashboard file, the result is False     *)
(* and the exit status 1, and the client has been disconnected by the time *)
(* get_device_info is left.                                                *)
C17_Aborted ==
    result = ReturnedFalse =>
        /\ rest_endpoints = <<>> /\ skipped_entities = <<>>
        /\ requests = <<>> /\ summary = <<>>
        /\ bundles = <<>> /\ disk = EmptyDir /\ sections = <<>>
        /\ pc \in {"disconnect", "done", "exited"}
        /\ pc \in {"done", "exited"} => client = "disconnected"
        /\ pc = "exited" => exit_status = <<1>>

\* a run asked to probe and to write the dashboard that failed to connect
C17_Witness ==
    /\ pc = "exited"
    /\ result = ReturnedFalse
    /\ client = "disconnected"
    /\ test_endpoints
    /\ web_lang = "js"
    /\ exit_status = <<1>>

----------------------------------------------------------------------------
(* C18: auto-refresh is a machine of two states, Idle (autoInterval null)  *)
(* and Polling (autoInterval a timer handle).  The script starts in Idle.  *)
(* A toggle in Idle sets one new timer, moves to Polling and runs one      *)
(* refresh at once; a toggle in Polling clears the timer and moves to      *)
(* Idle; no other event changes autoInterval, the timers or the button.    *)
(* In every state the timers set are the one handle in Polling and none in *)
(* Idle, and the button reads "Auto: OFF" in Idle and "Auto: ON" (followed *)
(* by the period, "(5s)") in Polling.                                      *)
Idle == autoInterval = 0

Polling == autoInterval # 0

OnLabels == {"Auto: ON" \o period : period \in {"", " (5s)"}}

C18_TwoStates ==
    /\ [](page = "open" =>
            /\ timers = (IF Polling THEN {autoInterval} ELSE {})
            /\ Cardinality(timers) <= 1
            /\ Idle => (autoBtn.textContent = "Auto: OFF" /\ ~autoBtn.active)
            /\ Polling => (autoBtn.textContent \in OnLabels /\ autoBtn.active))
    /\ [][/\ LoadPage => Idle'
          /\ (ToggleAuto /\ Idle) =>
                /\ Polling'
                /\ autoInterval' \notin timers
                /\ timers' = timers \cup {autoInterval'}
                /\ in_flight' = in_flight \o RefreshAllRequests(ENTITIES)
          /\ (ToggleAuto /\ Polling) =>
                /\ Idle'
                /\ timers' = timers \ {autoInterval}
          /\ (page = "open" /\ <<autoInterval, timers, autoBtn>>' # <<autoInterval, timers, autoBtn>>)
                => ToggleAuto]_vars

\* Polling for the second time, on the second timer
C18_Witness ==
    /\ page = "open"
    /\ timer_count = 2
    /\ autoInterval = 2
    /\ timers = {2}
    /\ autoBtn.textContent = "Auto: ON (5s)"

----------------------------------------------------------------------------
(* C19: cancelling is immediate.  The toggle to Idle leaves no timer set,  *)
(* so that in Idle no timer callback can run and start a refresh before    *)
(* the next toggle to Polling; it leaves the requests in flight and the    *)
(* cards as they are, and in Idle as in Polling every request in flight    *)
(* can end, and when it ends it sets the state text of its card.           *)
C19_CancelImmediate ==
    /\ []((page = "open" /\ Idle) => ~ENABLED TimerFires)
    /\ []((page = "open" /\ in_flight # <<>>) =>
              (ENABLED GetEntityReturns /\ ENABLED GetEntityThrows))
    /\ [][/\ TimerFires => Polling
          /\ (ToggleAuto /\ Polling) =>
                (timers' = {} /\ in_flight' = in_flight /\ cards' = cards)
          /\ (page = "open" /\ Len(in_flight') < Len(in_flight)) =>
                \E k \in 1..Len(in_flight) :
                    /\ in_flight' = Without(in_flight, k)
                    /\ cards'["card-" \o in_flight[k].object_id]
                           \in StateValues \cup {"Error"}]_vars

\* Idle again after Polling, a card already updated, requests still in flight
C19_Witness ==
    /\ page = "open"
    /\ Idle
    /\ timer_count = 1
    /\ Len(in_flight) >= 2
    /\ \E id \in DOMAIN cards : cards[id] \in StateValues

----------------------------------------------------------------------------
(* C20: the controls of a card match its descriptor.  A Switch, Light,     *)
(* Fan, Button, Cover or Lock card has one button per action of the        *)
(* descriptor, in the descriptor's order, whose click posts that action to *)
(* the descriptor's path; a Number, Text or Climate card has one value     *)
(* input and a Set button; a Time card one time input and a Set button; a  *)
(* Select card one dropdown with the descriptor's options in their order   *)
(* and a Set button; a Binary Sensor, Sensor or Text Sensor card has no    *)
(* control.                                                                *)
ButtonCategories == {"Switch", "Light", "Fan", "Button", "Cover", "Lock"}

ValueCategories == {"Number", "Text", "Climate"}

ReadOnlyCategories == {"Binary Sensor", "Sensor", "Text Sensor"}

\* the descriptor a card of a section was made from
DescriptorOf(card, t) ==
    CHOOSE d \in Range(rest_endpoints) :
        d.type = t /\ d.endpoint = card.endpoint /\ card.id = "card-" \o d.object_id

\* one input of some type and the Set button of some handler, for d
InputAndSet(controls, types, handler, d) ==
    /\ Len(controls) = 2
    /\ controls[1].tag = "input"
    /\ controls[1].type \in types
    /\ controls[1].id = "input-" \o d.object_id
    /\ controls[2] = [tag |-> "button", onclick |-> <<handler, d.endpoint, d.object_id>>,
                      label |-> "Set"]

ControlsMatch(card, t) ==
    LET d        == DescriptorOf(card, t)
        controls == card.controls
    IN  /\ t \in ButtonCategories =>
              /\ Len(controls) = Len(d.actions)
              /\ \A k \in 1..Len(controls) :
                    /\ controls[k].tag = "button"
                    /\ controls[k].onclick[1] = "doAction"
                    /\ controls[k].onclick[4] = d.object_id
                    /\ PostAction(controls[k].onclick[2], controls[k].onclick[3])
                           = [method |-> "POST", url |-> d.endpoint \o "/" \o d.actions[k]]
        /\ t \in ValueCategories => InputAndSet(controls, {"number", "text"}, "doSetValue", d)
        /\ t = "Time" => InputAndSet(controls, {"time"}, "doSetTime", d)
        /\ t = "Select" =>
              /\ Len(controls) = 2
              /\ controls[1].tag = "select"
              /\ controls[1].options = d.options
              /\ controls[2] = [tag |-> "button",
                                onclick |-> <<"doSetOption", d.endpoint, d.object_id>>,
                                label |-> "Set"]
        /\ t \in ReadOnlyCategories => controls = <<>>
        /\ t \in ButtonCategories \cup ValueCategories \cup ReadOnlyCategories
                 \cup {"Time", "Select"}

C20_ControlsMatch ==
    Generated =>
        \A n \in 1..Len(sections) :
            \A c \in 1..Len(sections[n].cards) :
                ControlsMatch(sections[n].cards[c], sections[n].type)

\* the dashboard of a sensor and a select with two options
C20_Witness ==
    /\ Generated
    /\ Len(sections) = 2
    /\ sections[1].type = "Sensor"
    /\ sections[1].cards[1].controls = <<>>
    /\ sections[2].type = "Select"
    /\ sections[2].cards[1].controls[1].options = <<"a", "b">>
    /\ rest_endpoints[1].options = <<"a", "b">>

----------------------------------------------------------------------------
(* C22: the methods of a descriptor.  In every descriptor, methods is a    *)
(* non-empty list without repetition of GET and POST that contains GET,    *)
(* and it contains POST exactly when the descriptor has at least one       *)
(* action; so the probe's get_endpoints is the whole descriptor list and   *)
(* the reported POST-only count is 0.                                      *)
HasPost(ep) == \E k \in 1..Len(ep.methods) : ep.methods[k] = "POST"

HasActions(ep) == "actions" \in DOMAIN ep /\ ep.actions # <<>>

C22_Methods ==
    Synthesized =>
        /\ \A d \in Range(rest_endpoints) :
              /\ Range(d.methods) \subseteq {"GET", "POST"}
              /\ Len(d.methods) >= 1
              /\ Len(d.methods) = Cardinality(Range(d.methods))
              /\ HasGet(d)
              /\ HasPost(d) <=> HasActions(d)
        /\ GetEndpoints(rest_endpoints) = rest_endpoints
        /\ GetCount(rest_endpoints) = Len(rest_endpoints)
        /\ PostOnlyCount(rest_endpoints) = 0

\* a button, with POST and an action, next to a sensor, with GET alone
C22_Witness ==
    /\ pc = "done"
    /\ Len(rest_endpoints) = 2
    /\ rest_endpoints[1].type = "Button"
    /\ rest_endpoints[1].methods = <<"GET", "POST">>
    /\ rest_endpoints[1].actions = <<"press">>
    /\ rest_endpoints[2].type = "Sensor"
    /\ rest_endpoints[2].methods = <<"GET">>
    /\ "actions" \notin DOMAIN rest_endpoints[2]

----------------------------------------------------------------------------
(* C23: the options of a descriptor.  A descriptor has the field options   *)
(* exactly when its type is Select; the options of a Select descriptor are *)
(* the options of the entity it was made from, in the same order, and the  *)
(* empty sequence when the entity has no options.                          *)
EntityOptions(e) == IF "options" \in DOMAIN e THEN e.options ELSE <<>>

C23_Options ==
    Synthesized =>
        /\ \A d \in Range(rest_endpoints) : ("options" \in DOMAIN d) <=> (d.type = "Select")
        /\ \A i \in 1..Len(entities) :
              UniqueId(i) =>
                  \A d \in DescriptorsOf(i) :
                      d.type = "Select" => d.options = EntityOptions(Entity(i))

\* a select whose entity has two options
C23_Witness ==
    /\ pc = "done"
    /\ Len(entities) = 1
    /\ entities[1].type_name = <<"Select", "Info">>
    /\ "options" \in DOMAIN entities[1]
    /\ entities[1].options = <<"a", "b">>
    /\ rest_endpoints[1].options = <<"a", "b">>

\* a select whose entity has no options attribute
C23_WitnessNoOptions ==
    /\ pc = "done"
    /\ Len(entities) = 1
    /\ "options" \notin DOMAIN entities[1]
    /\ rest_endpoints[1].type = "Select"
    /\ rest_endpoints[1].options = <<>>

----------------------------------------------------------------------------
(* C24: the probe and the generator only read the descriptor list.  No     *)
(* step of a probe run or of a generation run changes rest_endpoints, in   *)
(* length, order or any field; and the list returned to the caller is the  *)
(* list as synthesis produced it from the entities.                        *)
ProbeOrGeneration ==
    pc \in {"test", "get", "await_get", "await_json", "await_text", "web"}

C24_ReadOnly ==
    /\ [](result.returned = "list" =>
              /\ result.list = rest_endpoints
              /\ result.list = Synthesize(entities).rest_endpoints)
    /\ [][ProbeOrGeneration => rest_endpoints' = rest_endpoints]_vars

\* a run that probed a button and a sensor, wrote the dashboard and returned
\* the two descriptors in the order of the entities
C24_Witness ==
    /\ pc = "done"
    /\ test_endpoints
    /\ summary # <<>>
    /\ Len(bundles) = 1
    /\ result.returned = "list"
    /\ Len(result.list) = 2
    /\ result.list[1].entity = "B"
    /\ result.list[2].entity = "A"

----------------------------------------------------------------------------
(* C25: the probe is sequential.  At every moment at most one request has  *)
(* been sent whose outcome is not yet counted, and when a request is sent  *)
(* the outcome of every request before it has been counted.                *)
OutcomesCounted == success_count + fail_count

C25_Sequential ==
    /\ [](Len(requests) <= OutcomesCounted + 1)
    /\ [](pc = "get" => Len(requests) <= OutcomesCounted)
    /\ [][Len(requests') > Len(requests) =>
              /\ Len(requests') = Len(requests) + 1
              /\ Len(requests) <= OutcomesCounted]_vars

\* the first endpoint has been counted as a success, the second is requested
C25_Witness ==
    /\ pc = "await_get"
    /\ probe_i = 2
    /\ success_count = 1
    /\ fail_count = 0
    /\ Len(requests) = 2

----------------------------------------------------------------------------
(* C26: the script that index.html loads is in the bundle.  For the js and *)
(* for the ts flavor, the file named by the src of the script tag of the   *)
(* written index.html is one of the files the same call wrote.             *)
C26_ScriptInBundle ==
    \A i \in 1..Len(bundles) :
        bundles[i].files["index.html"][1].script_src \in DOMAIN bundles[i].files

----------------------------------------------------------------------------
(* C27: timing-only mode changes only what is printed.  When the program   *)
(* is run with --timed and without on the same entity list, and the device *)
(* answers both probes with the same sequence of responses, both runs      *)
(* return the same descriptor list and count the same numbers of           *)
(* succeeded and failed endpoints.                                         *)

\* the answers the probe awaits in both modes: all but the body of a
\* response of a status other than 200, which is not read when timed
AwaitedInBothModes(answers) ==
    SelectSeq(answers, LAMBDA a : ~(a.await = "text" /\ a.status # 200))

SameResponses(a, b) == AwaitedInBothModes(a) = AwaitedInBothModes(b)

C27_TimedOnlyPrints ==
    (/\ earlier # <<>>
     /\ pc = "done"
     /\ timed # earlier[1].timed
     /\ entities = earlier[1].entities
     /\ SameResponses(earlier[1].responses, responses))
    => /\ result = earlier[1].result
       /\ summary = earlier[1].summary

\* the descriptor lists alone do agree in every such pair of runs
C27_SameDescriptors ==
    (earlier # <<>> /\ pc = "done" /\ entities = earlier[1].entities)
    => result = earlier[1].result

----------------------------------------------------------------------------
(* C21: every request of the dashboard follows the REST path scheme of its *)
(* descriptor.  A state read is GET <path>; an action button sends POST    *)
(* <path>/<action> for an action of the descriptor; Set of a Number, Text, *)
(* Climate or Select sends POST <path>/set?value=<v> for the value v of    *)
(* the input; Set of a Time sends POST                                     *)
(* <path>/set?hour=<h>&minute=<m>&second=<s>, with second 0 when the input *)
(* has no seconds; and Set with an empty time input sends no request.      *)

\* the descriptors a control with this endpoint argument belongs to
DescriptorsAt(path) == {d \in Range(ENTITIES) : d.endpoint = path}

\* the inputs of the model as they must appear in a URL
ValueInUrl ==
    (<<>> :> "") @@ (<<"5">> :> "5") @@ (<<"a", " ">> :> "a%20")
        @@ (<<"a">> :> "a") @@ (<<"b">> :> "b")

TimeInUrl ==
    (<<"0", "7", ":", "3", "0">> :> "hour=7&minute=30&second=0")
        @@ (<<"0", "7", ":", "3", "0", ":", "1", "5">> :> "hour=7&minute=30&second=15")

Post(url) == <<[method |-> "POST", url |-> url]>>

FollowsScheme(click) ==
    LET handler == click.onclick[1]
        path    == click.onclick[2]
    IN  \E d \in DescriptorsAt(path) :
            IF handler = "doAction"
                THEN /\ \E a \in Range(d.actions) : click.onclick[3] = a
                     /\ click.request = Post(path \o "/" \o click.onclick[3])
            ELSE IF handler = "doSetTime"
                THEN /\ d.type = "Time"
                     /\ click.request =
                            IF click.own = <<>> THEN <<>>
                            ELSE Post(path \o "/set?" \o TimeInUrl[click.own])
            ELSE /\ d.type \in {"Number", "Text", "Climate", "Select"}
                 /\ handler = (IF d.type = "Select" THEN "doSetOption" ELSE "doSetValue")
                 /\ click.request = Post(path \o "/set?value=" \o ValueInUrl[click.own])

C21_PathScheme ==
    /\ \A k \in 1..Len(in_flight) :
          /\ in_flight[k].request.method = "GET"
          /\ \E d \in Range(ENTITIES) :
                HasGet(d) /\ in_flight[k].request.url = d.endpoint
    /\ \A n \in 1..Len(post_log) :
          /\ FollowsScheme(post_log[n])
          /\ (post_log[n].outcome = "none") <=> (post_log[n].request = <<>>)

\* with distinct object ids the scheme is followed by every request
C21_PathSchemeOfDistinctIds ==
    (\A d \in Range(ENTITIES) : \A e \in Range(ENTITIES) :
        e.object_id = d.object_id => e = d)
    => C21_PathScheme

----------------------------------------------------------------------------
(* C28: overlapping state requests.  Once no request for an entity is      *)
(* outstanding, the card of the entity shows what was returned to the      *)
(* request issued last for it, whatever the order of the responses.        *)
UniqueOid(d) ==
    \A e \in Range(ENTITIES) : e.object_id = d.object_id => e = d

Outstanding(d) ==
    \E k \in 1..Len(in_flight) : in_flight[k].endpoint = d.endpoint

C28_LatestShown ==
    page = "open" =>
        \A d \in Range(ENTITIES) :
            (UniqueOid(d) /\ ~Outstanding(d)) =>
                cards["card-" \o d.object_id] = latest["card-" \o d.object_id]

----------------------------------------------------------------------------
(* C29: a control re-reads the state only after its POST succeeded.  Every *)
(* GET sent by a control's timer belongs to a POST that succeeded, no POST *)
(* has two of them, a POST that succeeded has its GET sent or its timer    *)
(* waiting, the GET reads the entity the POST was sent to; and a GET that  *)
(* fails marks the card of its entity and changes no other card.           *)
CardOf(path) ==
    CHOOSE c \in Range(DocumentCards) : c.endpoint = path

\* document.getElementById(id) among the cards
CardById(id) ==
    Head(SelectSeq(DocumentCards, LAMBDA c : c.id = id))

C29_RereadAfterPost ==
    /\ [](/\ \A i \in 1..Len(fetched_for) :
                /\ post_log[fetched_for[i].n].outcome = "ok"
                /\ fetched_for[i].endpoint = post_log[fetched_for[i].n].onclick[2]
                /\ \A j \in 1..Len(fetched_for) :
                      fetched_for[j].n = fetched_for[i].n => j = i
          /\ \A n \in 1..Len(post_log) :
                post_log[n].outcome = "ok" =>
                    \/ \E t \in timeouts : t.n = n
                    \/ \E i \in 1..Len(fetched_for) : fetched_for[i].n = n
          /\ \A t \in timeouts : post_log[t.n].outcome = "ok")
    /\ [][\A id \in DOMAIN cards :
              (id \in DOMAIN cards' /\ cards'[id] # cards[id]) =>
                  \E k \in 1..Len(in_flight) :
                      /\ in_flight' = Without(Overtake(in_flight, k), k)
                      /\ CardOf(in_flight[k].endpoint) = CardById(id)]_vars

\* the same without the last two: what holds of the number of GETs alone
C29_OneRereadPerPost ==
    /\ \A i \in 1..Len(fetched_for) :
          /\ post_log[fetched_for[i].n].outcome = "ok"
          /\ \A j \in 1..Len(fetched_for) :
                fetched_for[j].n = fetched_for[i].n => j = i
    /\ \A n \in 1..Len(post_log) :
          post_log[n].outcome = "ok" =>
              \/ \E t \in timeouts : t.n = n
              \/ \E i \in 1..Len(fetched_for) : fetched_for[i].n = n
    /\ \A t \in timeouts : post_log[t.n].outcome = "ok"

====
